---- MODULE Spec2Model ----
(***************************************************************************)
(* Exit Node Toggle: the status reader, the toggle executor and the       *)
(* poll / toggle reconciliation of the four platform variants             *)
(*   "win"     src/main.py                                                *)
(*   "linux"   src/main_linux.py  (Tk window process + Qt tray process)   *)
(*   "mac"     src/main_macos.py                                          *)
(*   "macdist" src/dist/Exit Node Toggle.app/Contents/Resources/          *)
(*             main_macos.py  (logging and GUI-relaunch retry)            *)
(***************************************************************************)
EXTENDS Integers, Sequences, FiniteSets, TLC

Variants == {"win", "linux", "mac", "macdist"}

(***************************************************************************)
(* Bounds of the model.                                                    *)
(***************************************************************************)
\* unrelated members in front of the ExitNodeStatus member / the ID member
MaxExtra == 1
\* depth at which a runaway recursion of _run_tailscale is cut off
MaxDepth == 4

(***************************************************************************)
(* Python values as json.loads builds them: None, bool, int, str, dict.   *)
(* A dict is the sequence of its members in document order.               *)
(***************************************************************************)
PyNone == [t |-> "null", s |-> "", m |-> <<>>]

PyStr(x) == [t |-> "str", s |-> x, m |-> <<>>]

PyLit(w) ==
    CASE w = "null"  -> PyNone
      [] w \in {"true", "false"} -> [t |-> "bool", s |-> w, m |-> <<>>]
      [] OTHER -> [t |-> "num", s |-> w, m |-> <<>>]

PyDict(members) == [t |-> "obj", s |-> "", m |-> members]

Member(key, val) == [k |-> key, v |-> val]

\* Python truthiness, as used by `if not exit_node_status`
Falsy(x) ==
    \/ x.t = "null"
    \/ x.t = "bool" /\ x.s = "false"
    \/ x.t = "num" /\ x.s = "0"
    \/ x.t = "str" /\ x.s = ""
    \/ x.t = "obj" /\ x.m = <<>>

HasKey(d, key) == \E i \in 1..Len(d.m) : d.m[i].k = key

\* dict.get(key, default); a repeated key keeps its last value
DictGet(d, key, default) ==
    LET idx == {i \in 1..Len(d.m) : d.m[i].k = key}
    IN  IF idx = {} THEN default
        ELSE d.m[CHOOSE i \in idx : \A j \in idx : j <= i].v

(***************************************************************************)
(* The text of stdout as a sequence of tokens, and json.loads as a        *)
(* recursive-descent parser over it.                                      *)
(***************************************************************************)
Punct(c) == [k |-> "punct", v |-> c]
StrTok(x) == [k |-> "str", v |-> x]
LitTok(w) == [k |-> "lit", v |-> w]
JunkTok(x) == [k |-> "junk", v |-> x]
LB == Punct("{")
RB == Punct("}")
COLON == Punct(":")
COMMA == Punct(",")

ParseFail == [ok |-> FALSE, val |-> PyNone, next |-> 0]

RECURSIVE ParseValue(_, _)
RECURSIVE ParseMembers(_, _, _)
ParseValue(toks, i) ==
    IF i > Len(toks) THEN ParseFail
    ELSE LET tk == toks[i] IN
         CASE tk.k = "lit" -> [ok |-> TRUE, val |-> PyLit(tk.v), next |-> i + 1]
           [] tk.k = "str" -> [ok |-> TRUE, val |-> PyStr(tk.v), next |-> i + 1]
           [] tk = LB ->
                IF i + 1 <= Len(toks) /\ toks[i + 1] = RB
                THEN [ok |-> TRUE, val |-> PyDict(<<>>), next |-> i + 2]
                ELSE ParseMembers(toks, i + 1, <<>>)
           [] OTHER -> ParseFail

ParseMembers(toks, i, acc) ==
    IF i + 1 > Len(toks) THEN ParseFail
    ELSE IF toks[i].k # "str" \/ toks[i + 1] # COLON THEN ParseFail
    ELSE LET r == ParseValue(toks, i + 2) IN
         IF ~r.ok \/ r.next > Len(toks) THEN ParseFail
         ELSE LET acc2 == Append(acc, Member(toks[i].v, r.val)) IN
              IF toks[r.next] = RB
              THEN [ok |-> TRUE, val |-> PyDict(acc2), next |-> r.next + 1]
              ELSE IF toks[r.next] = COMMA
              THEN ParseMembers(toks, r.next + 1, acc2)
              ELSE ParseFail

\* json.loads: the whole text must be one value
json_loads(toks) ==
    LET r == ParseValue(toks, 1)
    IN  IF r.ok /\ r.next = Len(toks) + 1
        THEN [exc |-> "none", val |-> r.val]
        ELSE [exc |-> "JSONDecodeError", val |-> PyNone]

\* the text the CLI prints for a value
RECURSIVE Dumps(_)
RECURSIVE DumpMembers(_, _)
Dumps(x) ==
    CASE x.t = "obj" -> <<LB>> \o DumpMembers(x.m, 1) \o <<RB>>
      [] x.t = "str" -> <<StrTok(x.s)>>
      [] x.t = "null" -> <<LitTok("null")>>
      [] OTHER -> <<LitTok(x.s)>>

DumpMembers(ms, i) ==
    IF i > Len(ms) THEN <<>>
    ELSE <<StrTok(ms[i].k), COLON>> \o Dumps(ms[i].v)
         \o (IF i < Len(ms) THEN <<COMMA>> ELSE <<>>)
         \o DumpMembers(ms, i + 1)

(***************************************************************************)
(* The status documents and the texts the binary is driven with.          *)
(***************************************************************************)
Extras(n) == [i \in 1..n |-> Member("BackendState", PyStr("Running"))]

IdValues == {PyStr("100.1.2.3"), PyStr(""), PyNone, PyLit("7")}

ExitNodeObjects ==
    {PyDict(Extras(n)) : n \in 0..MaxExtra}
    \cup {PyDict(Extras(n) \o <<Member("ID", x)>>) : n \in 0..MaxExtra, x \in IdValues}

ExitNodeValues ==
    ExitNodeObjects \cup {PyNone, PyLit("true"), PyLit("0"), PyStr("")}

StatusDocs ==
    {PyDict(Extras(n)) : n \in 0..MaxExtra}
    \cup {PyDict(Extras(n) \o <<Member("ExitNodeStatus", e)>>) :
              n \in 0..MaxExtra, e \in ExitNodeValues}
    \cup {PyNone, PyStr("ok"), PyLit("7")}

ErrTexts == {"", "exit status 1", "failed to start tailscaled",
             "Failed to start Tailscale", "Tailscale is not running"}

Prefixes(sq) == {SubSeq(sq, 1, n) : n \in 0..Len(sq)}

Stdouts ==
    UNION {Prefixes(Dumps(d)) : d \in StatusDocs}
    \cup {Dumps(d) \o <<RB>> : d \in StatusDocs}
    \cup {<<JunkTok(x)>> : x \in ErrTexts \ {""}}

(***************************************************************************)
(* What one run of the external binary does: it exits with a code and     *)
(* output, it cannot be found, or it never exits.                         *)
(***************************************************************************)
ExitWith(rc, out, err) == [kind |-> "exit", rc |-> rc, out |-> out, err |-> err]
NotFound == [kind |-> "notfound", rc |-> 0, out |-> <<>>, err |-> ""]
Hang == [kind |-> "hang", rc |-> 0, out |-> <<>>, err |-> ""]

ActiveDoc == Dumps(PyDict(<<Member("ExitNodeStatus",
                               PyDict(<<Member("ID", PyStr("100.1.2.3"))>>))>>))
DirectDoc == Dumps(PyDict(<<>>))

Outcomes ==
    {ExitWith(0, out, "") : out \in Stdouts}
    \cup {ExitWith(rc, out, err) : rc \in {1, 2}, out \in {<<>>, ActiveDoc, DirectDoc},
                                   err \in ErrTexts}
    \cup {ExitWith(0, out, err) : out \in {ActiveDoc, DirectDoc}, err \in ErrTexts}
    \cup {NotFound, Hang}

\* what the binary does on every run after the first one of a call
RetryOutcomes ==
    {ExitWith(0, ActiveDoc, ""), ExitWith(0, DirectDoc, ""),
     ExitWith(1, <<>>, "failed to start tailscaled"),
     ExitWith(0, <<JunkTok("Tailscale is not running")>>, ""),
     ExitWith(0, DirectDoc, "Failed to start Tailscale"), NotFound}

\* subprocess.run(cmd, capture_output=True, text=True[, timeout=10])
subprocess_run(o, timeout) ==
    [exc |-> CASE o.kind = "notfound" -> "FileNotFoundError"
               [] o.kind = "hang" -> IF timeout THEN "TimeoutExpired" ELSE "blocked"
               [] OTHER -> "none",
     rc |-> o.rc, out |-> o.out, err |-> o.err]

\* str.lower() on the texts of ErrTexts
Lower(x) ==
    CASE x = "Failed to start Tailscale" -> "failed to start tailscale"
      [] x = "Tailscale is not running" -> "tailscale is not running"
      [] OTHER -> x

\* "failed to start" in x
ContainsFailedToStart(x) ==
    x \in {"failed to start tailscaled", "failed to start tailscale"}

\* every class of exception the model raises derives from Exception;
\* "blocked" is a call that never returns
Catches(cls, exc) ==
    /\ exc \notin {"none", "blocked"}
    /\ (cls = "Exception" \/ cls = exc)

(***************************************************************************)
(* Configuration.                                                          *)
(***************************************************************************)
SENTINEL == "YOUR_EXIT_NODE_IP_HERE"

ConfigFiles ==
    {[state |-> "missing", ip |-> ""], [state |-> "garbage", ip |-> ""]}
    \cup {[state |-> "ok", ip |-> x] : x \in {"", SENTINEL, "100.1.2.3"}}

\* Config.__init__ of each variant: the loaded fields, whether the process
\* goes on ("ok"), leaves by sys.exit ("exit") or dies of an exception
\* ("crash"), and the blocking alerts shown
Config_win(f) ==
    IF f.state # "ok"
    THEN [exit_node_ip |-> "", valid |-> FALSE, outcome |-> "crash", alerts |-> 0]
    ELSE [exit_node_ip |-> f.ip, valid |-> ~(f.ip = SENTINEL \/ f.ip = ""),
          outcome |-> "ok", alerts |-> IF f.ip = SENTINEL \/ f.ip = "" THEN 1 ELSE 0]

Config_linux(f) ==
    IF f.state # "ok"
    THEN [exit_node_ip |-> "", valid |-> FALSE, outcome |-> "ok", alerts |-> 0]
    ELSE [exit_node_ip |-> f.ip, valid |-> ~(f.ip = "" \/ f.ip = SENTINEL),
          outcome |-> "ok", alerts |-> 0]

Config_mac(f) ==
    IF f.state = "missing"
    THEN [exit_node_ip |-> "", valid |-> FALSE, outcome |-> "exit", alerts |-> 1]
    ELSE IF f.state = "garbage"
    THEN [exit_node_ip |-> "", valid |-> FALSE, outcome |-> "crash", alerts |-> 0]
    ELSE [exit_node_ip |-> f.ip, valid |-> ~(f.ip = SENTINEL \/ f.ip = ""),
          outcome |-> "ok", alerts |-> IF f.ip = SENTINEL \/ f.ip = "" THEN 1 ELSE 0]

LoadConfig(v, f) ==
    CASE v = "win" -> Config_win(f)
      [] v = "linux" -> Config_linux(f)
      [] OTHER -> Config_mac(f)

\* the configuration is invalid: identifier empty or the template's sentinel
InvalidIp(ip) == ip = "" \/ ip = SENTINEL

(***************************************************************************)
(* Status Reader and Toggle Executor.  Every call yields one record:      *)
(*   exc    the exception that escapes the call ("none"; "blocked" when   *)
(*          the call never returns)                                       *)
(*   ret    is_active of get_status, the success flag of a set call       *)
(*   node   the identifier get_status returns (PyNone for None)           *)
(*   alerts blocking dialogs shown, logs  log records written             *)
(*   n      runs of the binary, gui  launches of the VPN GUI              *)
(*   tried  _tried_start after the call                                   *)
(*   arg    the value of --exit-node= that was passed (NoArg: no set run) *)
(***************************************************************************)
NoArg == "-"

Res(exc, ret, node, alerts, logs, n, gui, tried, arg) ==
    [exc |-> exc, ret |-> ret, node |-> node, alerts |-> alerts, logs |-> logs,
     n |-> n, gui |-> gui, tried |-> tried, arg |-> arg]

Value(active, node) == [exc |-> "none", ret |-> active, node |-> node]
Raise(e) == [exc |-> e, ret |-> FALSE, node |-> PyNone]

\* ---- src/main.py (Windows) ----
\* get_status from the ExitNodeStatus entry on; main_macos.py and the bundled
\* main_macos.py have the same lines
status_of_entry(exit_node_status) ==
    IF exit_node_status = PyNone THEN Value(FALSE, PyNone)
    ELSE IF exit_node_status.t # "obj" THEN Raise("AttributeError")
    ELSE Value(TRUE, DictGet(exit_node_status, "ID", PyStr("Unknown")))

\* get_status from the return of json.loads on
status_of_data(data) ==
    IF data.exc # "none" THEN Raise(data.exc)
    ELSE IF data.val.t # "obj" THEN Raise("AttributeError")
    ELSE status_of_entry(DictGet(data.val, "ExitNodeStatus", PyNone))

\* the try block of get_status, from the return of subprocess.run on
get_status_try_win(result) ==
    IF result.exc # "none" THEN Raise(result.exc)
    ELSE IF result.rc # 0 THEN Value(FALSE, PyNone)
    ELSE status_of_data(json_loads(result.out))

\* the except clauses of get_status with only json.JSONDecodeError handled: a
\* missing binary is no longer caught (the fault C4 excludes)
get_status_except_win_parse_errors_only(body) ==
    IF body.exc = "none" THEN Res("none", body.ret, body.node, 0, 0, 1, 0, FALSE, NoArg)
    ELSE IF Catches("JSONDecodeError", body.exc)
    THEN Res("none", FALSE, PyNone, 0, 0, 1, 0, FALSE, NoArg)
    ELSE Res(body.exc, FALSE, PyNone, 0, 0, 1, 0, FALSE, NoArg)

\* the except clauses of get_status
get_status_except_win(body) ==
    IF body.exc = "none" THEN Res("none", body.ret, body.node, 0, 0, 1, 0, FALSE, NoArg)
    ELSE IF Catches("FileNotFoundError", body.exc)
    THEN Res("none", FALSE, PyNone, 1, 0, 1, 0, FALSE, NoArg)
    ELSE IF Catches("JSONDecodeError", body.exc)
    THEN Res("none", FALSE, PyNone, 0, 0, 1, 0, FALSE, NoArg)
    ELSE IF Catches("Exception", body.exc)
    THEN Res("none", FALSE, PyNone, 1, 0, 1, 0, FALSE, NoArg)
    ELSE Res(body.exc, FALSE, PyNone, 0, 0, 1, 0, FALSE, NoArg)

get_status_win(o) == get_status_except_win(get_status_try_win(subprocess_run(o, FALSE)))

\* enable_exit_node / disable_exit_node from the return of subprocess.run on
set_exit_node_win(result, arg) ==
    IF result.exc = "none"
    THEN Res("none", result.rc = 0, PyNone, 0, 0, 1, 0, FALSE, arg)
    ELSE IF Catches("Exception", result.exc)
    THEN Res("none", FALSE, PyNone, 1, 0, 1, 0, FALSE, arg)
    ELSE Res(result.exc, FALSE, PyNone, 0, 0, 1, 0, FALSE, arg)

enable_exit_node_win(config, o) ==
    set_exit_node_win(subprocess_run(o, FALSE), config.exit_node_ip)

disable_exit_node_win(o) == set_exit_node_win(subprocess_run(o, FALSE), "")

\* ---- src/main_linux.py ----
\* _run from the return of subprocess.run on
run_result_linux(r) ==
    IF r.exc = "none"
    THEN [exc |-> "none", rc |-> r.rc, out |-> r.out, err |-> r.err, logs |-> 0]
    ELSE IF Catches("FileNotFoundError", r.exc)
    THEN [exc |-> "none", rc |-> 127, out |-> <<>>, err |-> "Binary not found", logs |-> 1]
    ELSE IF Catches("Exception", r.exc)
    THEN [exc |-> "none", rc |-> 1, out |-> <<>>, err |-> r.exc, logs |-> 1]
    ELSE [exc |-> r.exc, rc |-> 0, out |-> <<>>, err |-> "", logs |-> 0]

\* TailscaleController._run: never raises, turns a failed start into an exit code
run_linux(o) == run_result_linux(subprocess_run(o, TRUE))

\* get_status from the ExitNodeStatus entry on
status_of_entry_linux(exit_node_status) ==
    IF Falsy(exit_node_status) THEN Value(FALSE, PyNone)
    ELSE IF exit_node_status.t # "obj" THEN Raise("AttributeError")
    ELSE Value(TRUE, DictGet(exit_node_status, "ID", PyStr("Unknown")))

\* get_status from the return of json.loads on
status_of_data_linux(data) ==
    IF data.exc # "none" THEN Raise(data.exc)
    ELSE IF data.val.t # "obj" THEN Raise("AttributeError")
    ELSE status_of_entry_linux(DictGet(data.val, "ExitNodeStatus", PyNone))

\* the try block of get_status without its test of the exit code (the fault
\* C3 excludes)
get_status_try_linux_any_exit_code(res) ==
    IF res.exc # "none" THEN Raise(res.exc)
    ELSE status_of_data_linux(json_loads(res.out))

\* the try block of get_status, from the return of _run on
get_status_try_linux(res) ==
    IF res.exc # "none" THEN Raise(res.exc)
    ELSE IF res.rc # 0 THEN Value(FALSE, PyNone)
    ELSE status_of_data_linux(json_loads(res.out))

\* the except clause of get_status; logs are the records _run has written
get_status_except_linux(body, logs) ==
    IF body.exc = "none"
    THEN Res("none", body.ret, body.node, 0, logs, 1, 0, FALSE, NoArg)
    ELSE IF Catches("Exception", body.exc)
    THEN Res("none", FALSE, PyNone, 0, logs + 1, 1, 0, FALSE, NoArg)
    ELSE Res(body.exc, FALSE, PyNone, 0, logs, 1, 0, FALSE, NoArg)

get_status_linux(o) ==
    get_status_except_linux(get_status_try_linux(run_linux(o)), run_linux(o).logs)

\* enable_exit_node / disable_exit_node from the return of _run on
set_exit_node_linux(res, arg) ==
    IF res.exc = "none"
    THEN Res("none", res.rc = 0, PyNone, 0, res.logs, 1, 0, FALSE, arg)
    ELSE IF Catches("Exception", res.exc)
    THEN Res("none", FALSE, PyNone, 0, res.logs + 1, 1, 0, FALSE, arg)
    ELSE Res(res.exc, FALSE, PyNone, 0, res.logs, 1, 0, FALSE, arg)

enable_exit_node_linux(config, o) ==
    IF ~config.valid THEN Res("none", FALSE, PyNone, 0, 0, 0, 0, FALSE, NoArg)
    ELSE set_exit_node_linux(run_linux(o), config.exit_node_ip)

\* disable_exit_node guarded against redundancy: it reports success without
\* running the binary (the fault C16 excludes)
disable_exit_node_linux_guarded(o) ==
    Res("none", TRUE, PyNone, 0, 0, 0, 0, FALSE, "")

disable_exit_node_linux(o) == set_exit_node_linux(run_linux(o), "")

\* ---- src/main_macos.py ----
get_status_try_mac(result) ==
    IF result.exc # "none" THEN Raise(result.exc)
    ELSE IF result.rc # 0 THEN Value(FALSE, PyNone)
    ELSE status_of_data(json_loads(result.out))

get_status_except_mac(body) ==
    IF body.exc = "none" THEN Res("none", body.ret, body.node, 0, 0, 1, 0, FALSE, NoArg)
    ELSE IF Catches("FileNotFoundError", body.exc)
    THEN Res("none", FALSE, PyNone, 1, 0, 1, 0, FALSE, NoArg)
    ELSE IF Catches("JSONDecodeError", body.exc)
    THEN Res("none", FALSE, PyNone, 0, 0, 1, 0, FALSE, NoArg)
    ELSE IF Catches("Exception", body.exc)
    THEN Res("none", FALSE, PyNone, 1, 0, 1, 0, FALSE, NoArg)
    ELSE Res(body.exc, FALSE, PyNone, 0, 0, 1, 0, FALSE, NoArg)

get_status_mac(o) == get_status_except_mac(get_status_try_mac(subprocess_run(o, FALSE)))

\* enable_exit_node / disable_exit_node that report success whatever the exit
\* code is (the fault C15 excludes)
set_exit_node_mac_any_exit_code(result, arg) ==
    IF result.exc = "none"
    THEN Res("none", TRUE, PyNone, 0, 0, 1, 0, FALSE, arg)
    ELSE IF Catches("Exception", result.exc)
    THEN Res("none", FALSE, PyNone, 1, 0, 1, 0, FALSE, arg)
    ELSE Res(result.exc, FALSE, PyNone, 0, 0, 1, 0, FALSE, arg)

\* enable_exit_node / disable_exit_node from the return of subprocess.run on
set_exit_node_mac(result, arg) ==
    IF result.exc = "none"
    THEN Res("none", result.rc = 0, PyNone, 0, 0, 1, 0, FALSE, arg)
    ELSE IF Catches("Exception", result.exc)
    THEN Res("none", FALSE, PyNone, 1, 0, 1, 0, FALSE, arg)
    ELSE Res(result.exc, FALSE, PyNone, 0, 0, 1, 0, FALSE, arg)

enable_exit_node_mac(config, o) ==
    set_exit_node_mac(subprocess_run(o, FALSE), config.exit_node_ip)

disable_exit_node_mac(o) == set_exit_node_mac(subprocess_run(o, FALSE), "")

\* ---- src/dist/Exit Node Toggle.app/Contents/Resources/main_macos.py ----
ensure_gui_running(tried) ==
    IF tried THEN [tried |-> TRUE, gui |-> 0, logs |-> 0]
    ELSE [tried |-> TRUE, gui |-> 1, logs |-> 1]

StdoutHasFailedToStart(out) ==
    \E i \in 1..Len(out) : out[i].k = "junk" /\ ContainsFailedToStart(Lower(out[i].v))

\* the log records _run_tailscale writes for one run
run_logs(result) ==
    IF result.exc # "none" THEN 1
    ELSE 2 + (IF result.out # <<>> THEN 1 ELSE 0) + (IF result.err # "" THEN 1 ELSE 0)

\* the result of the retry, with what the first run and the launch have added
after_retry(again, logs, g) ==
    [again EXCEPT !.logs = @ + logs + g.logs, !.n = @ + 1, !.gui = @ + g.gui]

\* _run_tailscale: o1 is what the binary does on this run, o2 on every later one
RECURSIVE run_tailscale(_, _, _, _)
RECURSIVE run_tailscale_result(_, _, _, _)
\* _run_tailscale that retries whether or not the GUI was launched before (the
\* fault C14 excludes)
run_tailscale_result_retry_always(result, tried, o2, depth) ==
    IF result.exc # "none"
    THEN [exc |-> result.exc, rc |-> 0, out |-> <<>>, err |-> "",
          logs |-> run_logs(result), n |-> 1, gui |-> 0, tried |-> tried]
    ELSE IF StdoutHasFailedToStart(result.out)
            \/ ContainsFailedToStart(Lower(result.err))
    THEN after_retry(run_tailscale(ensure_gui_running(tried).tried, o2, o2, depth + 1),
                     run_logs(result), ensure_gui_running(tried))
    ELSE [exc |-> "none", rc |-> result.rc, out |-> result.out,
          err |-> result.err, logs |-> run_logs(result), n |-> 1, gui |-> 0,
          tried |-> tried]

run_tailscale_result(result, tried, o2, depth) ==
    IF result.exc # "none"
    THEN [exc |-> result.exc, rc |-> 0, out |-> <<>>, err |-> "",
          logs |-> run_logs(result), n |-> 1, gui |-> 0, tried |-> tried]
    ELSE IF (StdoutHasFailedToStart(result.out)
             \/ ContainsFailedToStart(Lower(result.err))) /\ ~tried
    THEN after_retry(run_tailscale(ensure_gui_running(tried).tried, o2, o2, depth + 1),
                     run_logs(result), ensure_gui_running(tried))
    ELSE [exc |-> "none", rc |-> result.rc, out |-> result.out,
          err |-> result.err, logs |-> run_logs(result), n |-> 1, gui |-> 0,
          tried |-> tried]

run_tailscale(tried, o1, o2, depth) ==
    IF depth > MaxDepth
    THEN [exc |-> "RecursionError", rc |-> 0, out |-> <<>>, err |-> "",
          logs |-> 0, n |-> 0, gui |-> 0, tried |-> tried]
    ELSE run_tailscale_result(subprocess_run(o1, FALSE), tried, o2, depth)

get_status_try_macdist(result) ==
    IF result.exc # "none" THEN Raise(result.exc)
    ELSE IF result.rc # 0 THEN Value(FALSE, PyNone)
    ELSE status_of_data(json_loads(result.out))

\* the except clauses of get_status and its log records
get_status_except_macdist(body, result) ==
    IF body.exc = "none"
    THEN Res("none", body.ret, body.node, 0,
             result.logs + (IF result.exc = "none" /\ result.rc # 0 THEN 1 ELSE 0),
             result.n, result.gui, result.tried, NoArg)
    ELSE IF Catches("FileNotFoundError", body.exc)
    THEN Res("none", FALSE, PyNone, 1, result.logs + 1, result.n, result.gui,
             result.tried, NoArg)
    ELSE IF Catches("JSONDecodeError", body.exc)
    THEN Res("none", FALSE, PyNone, 0, result.logs + 1, result.n, result.gui,
             result.tried, NoArg)
    ELSE IF Catches("Exception", body.exc)
    THEN Res("none", FALSE, PyNone, 1, result.logs + 1, result.n, result.gui,
             result.tried, NoArg)
    ELSE Res(body.exc, FALSE, PyNone, 0, result.logs, result.n, result.gui,
             result.tried, NoArg)

get_status_from_run_macdist(result) ==
    get_status_except_macdist(get_status_try_macdist(result), result)

get_status_macdist(tried, o1, o2) ==
    get_status_from_run_macdist(run_tailscale(tried, o1, o2, 1))

\* enable_exit_node / disable_exit_node from the return of _run_tailscale on
set_exit_node_macdist(result, arg) ==
    IF result.exc = "none"
    THEN Res("none", result.rc = 0, PyNone, 0,
             result.logs + (IF result.rc # 0 THEN 1 ELSE 0),
             result.n, result.gui, result.tried, arg)
    ELSE IF Catches("Exception", result.exc)
    THEN Res("none", FALSE, PyNone, 1, result.logs + 1, result.n, result.gui,
             result.tried, arg)
    ELSE Res(result.exc, FALSE, PyNone, 0, result.logs, result.n, result.gui,
             result.tried, arg)

enable_exit_node_macdist(config, tried, o1, o2) ==
    set_exit_node_macdist(run_tailscale(tried, o1, o2, 1), config.exit_node_ip)

disable_exit_node_macdist(tried, o1, o2) ==
    set_exit_node_macdist(run_tailscale(tried, o1, o2, 1), "")

\* ---- the variant's own implementation ----
get_status(v, tried, o1, o2) ==
    CASE v = "win" -> get_status_win(o1)
      [] v = "linux" -> get_status_linux(o1)
      [] v = "mac" -> get_status_mac(o1)
      [] OTHER -> get_status_macdist(tried, o1, o2)

enable_exit_node(v, config, tried, o1, o2) ==
    CASE v = "win" -> enable_exit_node_win(config, o1)
      [] v = "linux" -> enable_exit_node_linux(config, o1)
      [] v = "mac" -> enable_exit_node_mac(config, o1)
      [] OTHER -> enable_exit_node_macdist(config, tried, o1, o2)

disable_exit_node(v, tried, o1, o2) ==
    CASE v = "win" -> disable_exit_node_win(o1)
      [] v = "linux" -> disable_exit_node_linux(o1)
      [] v = "mac" -> disable_exit_node_mac(o1)
      [] OTHER -> disable_exit_node_macdist(tried, o1, o2)

(***************************************************************************)
(* State.                                                                  *)
(***************************************************************************)
VARIABLES
    variant,          \* which of the four programs runs
    config,           \* the loaded Config
    tried_start,      \* TailscaleToggle._tried_start (macdist)
    call,             \* a call of the reader / executor on its own: input and result
    ext,              \* the exit node as the VPN client has it: TRUE = active
    tray,             \* "running" / "none": the tray icon (win) or tray process (linux)
    ui,               \* UI thread: "init", "idle", "update" (inside root.update()),
                      \*            "set" (blocked in a set command), "hung"
    uiFrames,         \* the toggle handlers active on the UI thread: their entry
                      \* points (win, linux), the title they saved (macOS)
    uiArg,            \* --exit-node value of the set command the UI thread waits for
    is_on,            \* App.is_on
    shown,            \* displayed state: "Checking", "CONNECTED", "DIRECT"
    label,            \* text of the toggle control
    btn,              \* state of the toggle button: "normal" / "disabled"
    afterQ,           \* callbacks queued with root.after(0, ...)
    chains,           \* pending self-rescheduling refresh timers
    workers,          \* linux window: threads running App._worker
    trayIcon,         \* tray / menu-bar icon: "off" / "on"
    trayThreads,      \* linux tray: threads running do_toggle
    startup_enabled,  \* the displayed "start at login" state
    artifact,         \* the autostart artifact exists
    ev,               \* what the last step did (observation only)
    proc,             \* the main process: "start" (before Config()), "run",
                      \*                   "quit" (left by its own choice), "crash"
    window,           \* the main window: "shown" / "hidden" (withdrawn)
    msgQ,             \* linux: the queue from the tray process to the window
    sent,             \* every message the tray has put on the queue, in order
    handled,          \* every message check_queue has handled, in order
    cfgFile,          \* the configuration file Config() meets at start-up
    reg               \* the calls of the startup registrar made on its own

vars == <<variant, config, tried_start, call, ext, tray, ui, uiFrames, uiArg, is_on,
          shown, label, btn, afterQ, chains, workers, trayIcon, trayThreads,
          startup_enabled, artifact, ev, proc, window, msgQ, sent, handled,
          cfgFile, reg>>

procVars == <<proc, window, msgQ, sent, handled, cfgFile, reg>>

appVars == <<ext, tray, ui, uiFrames, uiArg, is_on, shown, label, btn, afterQ, chains,
             workers, trayIcon, trayThreads, startup_enabled, artifact, ev>>

Res0 == Res("none", FALSE, PyNone, 0, 0, 0, 0, FALSE, NoArg)

NoCall == [op |-> "none", o1 |-> NotFound, o2 |-> NotFound, done |-> FALSE, res |-> Res0,
           rep |-> 0]

NoEv == [kind |-> "none", entry |-> "none", thread |-> "none", shown |-> FALSE,
         read |-> FALSE, arg |-> NoArg, ok |-> FALSE, alerted |-> FALSE,
         refreshed |-> FALSE, wrote |-> {}, how |-> "-", was |-> FALSE]

NoFile == [state |-> "none", ip |-> ""]

\* the configuration files with which the variant gets past Config.__init__
StartableFiles(v) == {f \in ConfigFiles : LoadConfig(v, f).outcome = "ok"}

\* the state in which App.__init__ has set is_on = False and built its widgets,
\* before the first status read
InitApp ==
    /\ variant \in Variants
    /\ \E f \in StartableFiles(variant) : config = LoadConfig(variant, f)
    /\ ext \in BOOLEAN
    /\ tray \in (IF variant \in {"win", "linux"} THEN {"none", "running"} ELSE {"none"})
    /\ ui = (IF variant = "linux" THEN "idle" ELSE "init")
    /\ uiFrames = <<>>
    /\ uiArg = NoArg
    /\ is_on = FALSE
    /\ shown = "Checking"
    /\ label = (IF variant = "win" THEN "Loading" ELSE "Toggle")
    /\ btn = "normal"
    /\ afterQ = <<>>
    /\ chains = (IF variant = "linux" THEN 1 ELSE 0)
    /\ workers = <<>>
    /\ trayIcon = "off"
    /\ trayThreads = <<>>
    /\ artifact \in BOOLEAN
    /\ startup_enabled = artifact
    /\ ev = NoEv
    /\ proc = "run"
    /\ window = "shown"
    /\ msgQ = <<>> /\ sent = <<>> /\ handled = <<>>
    /\ cfgFile = NoFile
    /\ reg = <<>>

(***************************************************************************)
(* SpecCli: the Status Reader and the Toggle Executor on their own.  The  *)
(* initial state draws the variant, the configuration, _tried_start, the  *)
(* operation and what the binary does; the actions apply the operation.   *)
(***************************************************************************)
InitCli ==
    /\ InitApp
    /\ tried_start \in (IF variant = "macdist" THEN BOOLEAN ELSE {FALSE})
    /\ ext = FALSE /\ tray = "none" /\ artifact = FALSE
    /\ \E op \in {"get_status", "enable", "disable"}, o1 \in Outcomes :
         \E o2 \in (IF variant = "macdist" THEN RetryOutcomes ELSE {o1}) :
            call = [op |-> op, o1 |-> o1, o2 |-> o2, done |-> FALSE, res |-> Res0,
                    rep |-> 0]

\* disable calls made one after the other
MaxRepeat == 2

\* the exit node after a set call with result r: a set command that exits
\* with 0 takes effect
ExtAfter(r) == IF r.exc = "none" /\ r.ret THEN r.arg # "" ELSE ext

cliVars == <<tray, ui, uiFrames, uiArg, is_on, shown, label, btn, afterQ, chains,
             workers, trayIcon, trayThreads, startup_enabled, artifact, ev>>

\* what the binary does on a set command of the application or a repeated one
AppSetRuns(v) ==
    {ExitWith(0, <<>>, ""), ExitWith(1, <<>>, "exit status 1"), NotFound, Hang}
    \cup (IF v = "macdist" THEN {ExitWith(1, <<>>, "failed to start tailscaled")} ELSE {})

AppSetRetries(v) ==
    IF v = "macdist"
    THEN {ExitWith(0, <<>>, ""), ExitWith(1, <<>>, "failed to start tailscaled")}
    ELSE {NotFound}

CallGetStatus ==
    /\ call.op = "get_status" /\ ~call.done
    /\ \E r \in {get_status(variant, tried_start, call.o1, call.o2)} :
           /\ call' = [call EXCEPT !.done = TRUE, !.res = r]
           /\ tried_start' = (tried_start \/ r.tried)
    /\ UNCHANGED <<procVars, variant, config, appVars>>

CallEnable ==
    /\ call.op = "enable" /\ ~call.done
    /\ \E r \in {enable_exit_node(variant, config, tried_start, call.o1, call.o2)} :
           /\ call' = [call EXCEPT !.done = TRUE, !.res = r]
           /\ tried_start' = (tried_start \/ r.tried)
           /\ ext' = ExtAfter(r)
    /\ UNCHANGED <<procVars, variant, config, cliVars>>

CallDisable ==
    /\ call.op = "disable" /\ ~call.done
    /\ \E r \in {disable_exit_node(variant, tried_start, call.o1, call.o2)} :
           /\ call' = [call EXCEPT !.done = TRUE, !.res = r]
           /\ tried_start' = (tried_start \/ r.tried)
           /\ ext' = ExtAfter(r)
    /\ UNCHANGED <<procVars, variant, config, cliVars>>

\* disable_exit_node is called again after a call of it that returned
CallDisableAgain ==
    /\ call.op = "disable" /\ call.done /\ call.res.exc = "none"
    /\ call.rep < MaxRepeat
    /\ \E o \in AppSetRuns(variant), o2 \in AppSetRetries(variant) :
           call' = [op |-> "disable", o1 |-> o, o2 |-> o2, done |-> FALSE,
                    res |-> Res0,
                    rep |-> IF call.res.ret THEN call.rep + 1 ELSE 0]
    /\ UNCHANGED <<procVars, variant, config, tried_start, appVars>>

NextCli == CallGetStatus \/ CallEnable \/ CallDisable \/ CallDisableAgain

SpecCli == InitCli /\ [][NextCli]_vars

(***************************************************************************)
(* The application.  The binary as the application meets it: a status run *)
(* reports the exit node as the VPN client has it, or fails; a set run    *)
(* that exits with 0 takes effect.                                        *)
(***************************************************************************)
\* nested toggle handlers on the UI thread (root.update() re-enters the loop)
MaxFrames == 2
\* callbacks a tray thread may have queued on the window's event loop
MaxAfter == 2
\* refresh timers pending at once
MaxChains == 2
\* do_toggle threads of the tray alive at once
MaxTrayThreads == 1

StatusDocOf(e) == IF e THEN ActiveDoc ELSE DirectDoc

AppStatusRuns(v, e) ==
    {ExitWith(0, StatusDocOf(e), ""), ExitWith(1, <<>>, "exit status 1"), NotFound}
    \cup (IF v = "linux" THEN {} ELSE {Hang})
    \cup (IF v = "macdist" THEN {ExitWith(1, <<>>, "failed to start tailscaled")} ELSE {})

AppStatusRetries(v, e) ==
    IF v = "macdist"
    THEN {ExitWith(0, StatusDocOf(e), ""), ExitWith(1, <<>>, "failed to start tailscaled")}
    ELSE {NotFound}

\* what a step did: the entry point it belongs to, the thread it ran on, the
\* displayed state (CONNECTED?) and the exit node (`was`) before it, the
\* status it read or went by, the
\* --exit-node value, how the set command ended, whether an error was shown to
\* the user, whether a status refresh was made or queued, and the presentation
\* state it wrote
MkEvH(kind, entry, thread, shownOn, read, arg, ok, alerted, refreshed, wrote, how) ==
    [kind |-> kind, entry |-> entry, thread |-> thread, shown |-> shownOn,
     read |-> read, arg |-> arg, ok |-> ok, alerted |-> alerted,
     refreshed |-> refreshed, wrote |-> wrote, how |-> how, was |-> ext]

MkEv(kind, entry, thread, shownOn, read, arg, ok, alerted, refreshed, wrote) ==
    MkEvH(kind, entry, thread, shownOn, read, arg, ok, alerted, refreshed, wrote, "-")

\* how a set call ended: "ok", "nonzero" exit code, "notfound", "hang" (timed
\* out), or "skipped" when the binary was not run
SetOutcome(r, o, o2) ==
    IF r.n = 0 THEN "skipped"
    ELSE IF r.ret THEN "ok"
    ELSE LET u == IF r.n >= 2 THEN o2 ELSE o
         IN  IF u.kind = "exit" THEN "nonzero" ELSE u.kind

\* the value of --exit-node= that an operation passes
SetArg(op, cfg) == IF op = "disable" THEN "" ELSE cfg.exit_node_ip

call_set(v, op, cfg, tried, o, o2) ==
    IF op = "disable" THEN disable_exit_node(v, tried, o, o2)
    ELSE enable_exit_node(v, cfg, tried, o, o2)

\* the operation returns without running the binary
RunsNothing(v, op, cfg) == call_set(v, op, cfg, FALSE, NotFound, NotFound).n = 0

RemoveAt(sq, i) == SubSeq(sq, 1, i - 1) \o SubSeq(sq, i + 1, Len(sq))

ShownOn == shown = "CONNECTED"
IconOn == trayIcon = "on"

\* StartupManager.is_enabled(): the existence of the artifact; on Windows
\* False when the Run key cannot be opened (readok)
StartupManager_is_enabled(v, readok, a) ==
    IF v = "win" /\ ~readok THEN [ret |-> FALSE, artifact |-> a]
    ELSE [ret |-> a, artifact |-> a]

\* enable() that removes an artifact it finds (the fault C24 excludes)
StartupManager_enable_toggling(v, fsok, a) ==
    IF fsok THEN [ret |-> TRUE, artifact |-> ~a] ELSE [ret |-> FALSE, artifact |-> a]

\* StartupManager.enable() / disable(): fsok says whether the registry or the
\* file system lets the operation through
StartupManager_enable(v, fsok, a) ==
    IF fsok THEN [ret |-> TRUE, artifact |-> TRUE] ELSE [ret |-> FALSE, artifact |-> a]

\* on linux and macOS nothing is touched when the artifact does not exist
StartupManager_disable(v, fsok, a) ==
    IF v # "win" /\ ~a THEN [ret |-> TRUE, artifact |-> a]
    ELSE IF fsok THEN [ret |-> TRUE, artifact |-> FALSE]
    ELSE [ret |-> FALSE, artifact |-> a]

\* every run of the binary a status read of the application can meet
StatusRunSet ==
    UNION {AppStatusRuns(v, e) \cup AppStatusRetries(v, e) :
               v \in Variants, e \in BOOLEAN}

\* get_status tabulated over the runs the application can meet
StatusTable ==
    [v \in Variants, t \in BOOLEAN, o \in StatusRunSet, o2 \in StatusRunSet |->
        get_status(v, t, o, o2)]

Init ==
    /\ InitApp
    /\ tried_start = FALSE
    /\ call = NoCall

\* the configuration before Config() has run
NoConfig == [exit_node_ip |-> "", valid |-> FALSE, outcome |-> "none", alerts |-> 0]

\* the process at the entry of main(): nothing is loaded, nothing is displayed
InitStart ==
    /\ variant \in Variants
    /\ cfgFile \in ConfigFiles
    /\ config = NoConfig
    /\ proc = "start"
    /\ ext \in BOOLEAN
    /\ tray \in (IF variant \in {"win", "linux"} THEN {"none", "running"} ELSE {"none"})
    /\ ui = (IF variant = "linux" THEN "idle" ELSE "init")
    /\ uiFrames = <<>> /\ uiArg = NoArg
    /\ is_on = FALSE
    /\ shown = "Checking"
    /\ label = (IF variant = "win" THEN "Loading" ELSE "Toggle")
    /\ btn = "normal"
    /\ afterQ = <<>>
    /\ chains = (IF variant = "linux" THEN 1 ELSE 0)
    /\ workers = <<>> /\ trayThreads = <<>>
    /\ trayIcon = "off"
    /\ artifact \in BOOLEAN
    /\ startup_enabled = FALSE
    /\ ev = NoEv
    /\ window = "shown"
    /\ msgQ = <<>> /\ sent = <<>> /\ handled = <<>>
    /\ reg = <<>>
    /\ tried_start = FALSE
    /\ call = NoCall

\* App.__init__ up to the first status read: Config() loads the file or ends
\* the process; the start-at-login display is read from the registrar
AppInit ==
    /\ proc = "start"
    /\ \E c \in {LoadConfig(variant, cfgFile)} :
         /\ config' = c
         /\ proc' = (CASE c.outcome = "ok" -> "run"
                        [] c.outcome = "exit" -> "quit"
                        [] OTHER -> "crash")
         /\ startup_enabled' = (IF c.outcome = "ok" THEN artifact ELSE FALSE)
    /\ UNCHANGED <<variant, tried_start, call, ext, tray, ui, uiFrames, uiArg, is_on,
                   shown, label, btn, afterQ, chains, workers, trayIcon, trayThreads,
                   artifact, ev, window, msgQ, sent, handled, cfgFile, reg>>

\* ---------------------------------------------------------------- Windows
\* update_ui that redraws the button and the tray icon and leaves the status
\* text as it was (the fault C7 excludes)
update_ui_win_status_text_kept(on) ==
    /\ shown' = shown
    /\ label' = (IF on THEN "Disable" ELSE "Enable")
    /\ trayIcon' = (IF tray = "running" THEN (IF on THEN "on" ELSE "off") ELSE trayIcon)

\* App.update_ui with the new value of is_on
update_ui_win(on) ==
    /\ shown' = (IF on THEN "CONNECTED" ELSE "DIRECT")
    /\ label' = (IF on THEN "Disable" ELSE "Enable")
    /\ trayIcon' = (IF tray = "running" THEN (IF on THEN "on" ELSE "off") ELSE trayIcon)

\* App.__init__: the refresh_status() that ends construction
WinFirstRefresh ==
    /\ proc = "run"
    /\ variant = "win" /\ ui = "init"
    /\ \E o \in AppStatusRuns(variant, ext) :
         \E r \in {StatusTable[variant, tried_start, o, o]} :
         IF r.exc = "blocked"
         THEN /\ ui' = "hung"
              /\ UNCHANGED <<is_on, shown, label, trayIcon>>
              /\ ev' = MkEv("blocked", "launch", "ui", ShownOn, FALSE, NoArg, FALSE,
                            FALSE, FALSE, {})
         ELSE /\ ui' = "idle"
              /\ is_on' = r.ret
              /\ update_ui_win(r.ret)
              /\ ev' = MkEv("poll", "launch", "ui", ShownOn, r.ret, NoArg, FALSE,
                            r.alerts > 0, TRUE, {"is_on", "labels"})
    /\ UNCHANGED <<procVars, variant, config, tried_start, call, ext, tray,
                   uiFrames, uiArg, btn, afterQ, chains, workers,
                   trayThreads, startup_enabled, artifact>>

\* App.toggle_node up to root.update(), entered by a click on the button
WinButtonClick ==
    /\ variant = "win" /\ ui \in {"idle", "update"}
    /\ btn = "normal" /\ Len(uiFrames) < MaxFrames
    /\ btn' = "disabled"
    /\ label' = "Working"
    /\ uiFrames' = <<"button">> \o uiFrames
    /\ ui' = "update"
    /\ ev' = MkEv("request", "button", "ui", ShownOn, is_on, NoArg, FALSE, FALSE,
                  FALSE, {"labels"})
    /\ UNCHANGED <<procVars, variant, config, tried_start, call, ext, tray,
                   uiArg, is_on, shown, afterQ, chains, workers,
                   trayIcon, trayThreads, startup_enabled, artifact>>

\* App.tray_toggle, on the tray thread: queues toggle_node on the UI thread
WinTrayToggle ==
    /\ variant = "win" /\ tray = "running"
    /\ Len(afterQ) < MaxAfter
    /\ afterQ' = Append(afterQ, "toggle_node")
    /\ ev' = MkEv("marshal", "tray_item", "pystray", ShownOn, is_on, NoArg, FALSE,
                  FALSE, FALSE, {})
    /\ UNCHANGED <<procVars, variant, config, tried_start, call, ext, tray,
                   ui, uiFrames, uiArg, is_on, shown, label,
                   btn, chains, workers, trayIcon, trayThreads, startup_enabled,
                   artifact>>

\* App.toggle_node up to root.update(), entered from the after queue
WinRunTrayToggle ==
    /\ variant = "win" /\ ui \in {"idle", "update"}
    /\ afterQ # <<>> /\ Head(afterQ) = "toggle_node"
    /\ Len(uiFrames) < MaxFrames
    /\ afterQ' = Tail(afterQ)
    /\ btn' = "disabled"
    /\ label' = "Working"
    /\ uiFrames' = <<"tray_item">> \o uiFrames
    /\ ui' = "update"
    /\ ev' = MkEv("request", "tray_item", "ui", ShownOn, is_on, NoArg, FALSE, FALSE,
                  FALSE, {"labels"})
    /\ UNCHANGED <<procVars, variant, config, tried_start, call, ext, tray,
                   uiArg, is_on, shown, chains, workers, trayIcon,
                   trayThreads, startup_enabled, artifact>>

\* toggle_node with its two branches swapped (the fault C6 excludes)
toggle_node_win_swapped(on) == IF on THEN "enable" ELSE "disable"

\* App.toggle_node: which executor call it makes
toggle_node_win(on) == IF on THEN "disable" ELSE "enable"

\* App.toggle_node: root.update() has returned, the set command is started
WinIssue ==
    /\ variant = "win" /\ ui = "update" /\ afterQ = <<>>
    /\ ui' = "set"
    /\ uiArg' = SetArg(toggle_node_win(is_on), config)
    /\ ev' = MkEv("issue", Head(uiFrames), "ui", ShownOn, is_on,
                  SetArg(toggle_node_win(is_on), config), FALSE, FALSE, FALSE, {})
    /\ UNCHANGED <<procVars, variant, config, tried_start, call, ext, tray,
                   uiFrames, is_on, shown, label, btn, afterQ,
                   chains, workers, trayIcon, trayThreads, startup_enabled, artifact>>

\* App.toggle_node from the return of the set command to the end of `finally`
WinSetDone ==
    /\ variant = "win" /\ ui = "set"
    /\ \E o \in AppSetRuns(variant) :
         \E r \in {call_set(variant, toggle_node_win(is_on), config, tried_start, o, o)} :
         LET e2 == ExtAfter(r)
             rest == Tail(uiFrames)
             how == SetOutcome(r, o, o)
         IN
         IF r.exc = "blocked"
         THEN /\ ui' = "hung"
              /\ UNCHANGED <<ext, is_on, shown, label, trayIcon, btn, uiFrames, uiArg>>
              /\ ev' = MkEv("blocked", Head(uiFrames), "ui", ShownOn, is_on, uiArg,
                            FALSE, FALSE, FALSE, {})
         ELSE IF r.ret
         THEN /\ ext' = e2
              /\ is_on' = ~is_on
              /\ update_ui_win(~is_on)
              /\ btn' = "normal"
              /\ uiFrames' = rest
              /\ uiArg' = NoArg
              /\ ui' = (IF rest = <<>> THEN "idle" ELSE "update")
              /\ ev' = MkEvH("done", Head(uiFrames), "ui", ShownOn, is_on, uiArg,
                             TRUE, r.alerts > 0, FALSE, {"is_on", "labels"}, how)
         ELSE \E s \in AppStatusRuns(variant, e2) :
              \E q \in {StatusTable[variant, tried_start, s, s]} :
              IF q.exc = "blocked"
              THEN /\ ext' = e2
                   /\ ui' = "hung"
                   /\ uiArg' = NoArg
                   /\ UNCHANGED <<is_on, shown, label, trayIcon, btn, uiFrames>>
                   /\ ev' = MkEvH("done", Head(uiFrames), "ui", ShownOn, is_on, uiArg,
                                  FALSE, TRUE, TRUE, {}, how)
              ELSE /\ ext' = e2
                   /\ is_on' = q.ret
                   /\ update_ui_win(q.ret)
                   /\ btn' = "normal"
                   /\ uiFrames' = rest
                   /\ uiArg' = NoArg
                   /\ ui' = (IF rest = <<>> THEN "idle" ELSE "update")
                   /\ ev' = MkEvH("done", Head(uiFrames), "ui", ShownOn, q.ret, uiArg,
                                  FALSE, TRUE, TRUE, {"is_on", "labels"}, how)
    /\ UNCHANGED <<procVars, variant, config, tried_start, call, tray, afterQ,
                   chains, workers, trayThreads, startup_enabled, artifact>>

\* App.toggle_startup, called by the tray on its own thread
WinTrayToggleStartup ==
    /\ proc = "run"
    /\ variant = "win" /\ tray = "running"
    /\ Len(afterQ) < MaxAfter
    /\ \E fsok \in BOOLEAN :
         LET m == IF startup_enabled THEN StartupManager_disable(variant, fsok, artifact)
                  ELSE StartupManager_enable(variant, fsok, artifact)
         IN  /\ artifact' = m.artifact
             /\ startup_enabled' = (IF m.ret THEN ~startup_enabled ELSE startup_enabled)
             /\ ev' = MkEv("startup", "tray_startup", "pystray", ShownOn, is_on, NoArg,
                           m.ret, ~m.ret, FALSE,
                           IF m.ret THEN {"startup_enabled"} ELSE {})
    /\ afterQ' = Append(afterQ, "startup_text")
    /\ UNCHANGED <<procVars, variant, config, tried_start, call, ext, tray,
                   ui, uiFrames, uiArg, is_on, shown, label,
                   btn, chains, workers, trayIcon, trayThreads>>

\* the lambda queued by toggle_startup: the checkbox text, on the UI thread
WinRunStartupText ==
    /\ proc = "run"
    /\ variant = "win" /\ ui \in {"idle", "update"}
    /\ afterQ # <<>> /\ Head(afterQ) = "startup_text"
    /\ afterQ' = Tail(afterQ)
    /\ ev' = MkEv("after", "tray_startup", "ui", ShownOn, is_on, NoArg, FALSE, FALSE,
                  FALSE, {"startup_check"})
    /\ UNCHANGED <<procVars, variant, config, tried_start, call, ext, tray,
                   ui, uiFrames, uiArg, is_on, shown, label,
                   btn, chains, workers, trayIcon, trayThreads, startup_enabled,
                   artifact>>

\* the checkbox flips its variable, then App.toggle_startup_from_gui
WinGuiToggleStartup ==
    /\ proc = "run"
    /\ variant = "win" /\ ui \in {"idle", "update"}
    /\ \E fsok \in BOOLEAN :
         LET want == ~startup_enabled
             m == IF want THEN StartupManager_enable(variant, fsok, artifact)
                  ELSE StartupManager_disable(variant, fsok, artifact)
         IN  /\ artifact' = m.artifact
             /\ startup_enabled' = (IF m.ret THEN want ELSE ~want)
             /\ ev' = MkEv("startup", "gui_startup", "ui", ShownOn, is_on, NoArg,
                           m.ret, ~m.ret, FALSE, {"startup_enabled"})
    /\ UNCHANGED <<procVars, variant, config, tried_start, call, ext, tray,
                   ui, uiFrames, uiArg, is_on, shown, label,
                   btn, afterQ, chains, workers, trayIcon, trayThreads>>

\* ------------------------------------------------------------------ macOS
\* update_ui that shows the opposite of is_on (the fault C20 excludes)
update_ui_mac_inverted(on) ==
    /\ shown' = (IF on THEN "DIRECT" ELSE "CONNECTED")
    /\ label' = (IF on THEN "Enable" ELSE "Disable")
    /\ trayIcon' = (IF on THEN "off" ELSE "on")

\* ExitNodeToggleApp.update_ui with the new value of is_on
update_ui_mac(on) ==
    /\ shown' = (IF on THEN "CONNECTED" ELSE "DIRECT")
    /\ label' = (IF on THEN "Disable" ELSE "Enable")
    /\ trayIcon' = (IF on THEN "on" ELSE "off")

\* ExitNodeToggleApp.__init__: refresh_status(), then the 30 s timer is started
MacFirstRefresh ==
    /\ proc = "run"
    /\ variant \in {"mac", "macdist"} /\ ui = "init"
    /\ \E o \in AppStatusRuns(variant, ext), o2 \in AppStatusRetries(variant, ext) :
         \E r \in {StatusTable[variant, tried_start, o, o2]} :
         IF r.exc = "blocked"
         THEN /\ ui' = "hung"
              /\ tried_start' = (tried_start \/ r.tried)
              /\ UNCHANGED <<is_on, shown, label, trayIcon, chains>>
              /\ ev' = MkEv("blocked", "launch", "ui", ShownOn, FALSE, NoArg, FALSE,
                            FALSE, FALSE, {})
         ELSE /\ ui' = "idle"
              /\ tried_start' = (tried_start \/ r.tried)
              /\ is_on' = r.ret
              /\ update_ui_mac(r.ret)
              /\ chains' = 1
              /\ ev' = MkEv("poll", "launch", "ui", ShownOn, r.ret, NoArg, FALSE,
                            r.alerts > 0, TRUE, {"is_on", "labels"})
    /\ UNCHANGED <<procVars, variant, config, call, ext, tray, uiFrames,
                   uiArg, btn, afterQ, workers, trayThreads, startup_enabled,
                   artifact>>

\* ExitNodeToggleApp.timer_refresh
MacTimerRefresh ==
    /\ variant \in {"mac", "macdist"} /\ ui = "idle" /\ chains > 0
    /\ \E o \in AppStatusRuns(variant, ext), o2 \in AppStatusRetries(variant, ext) :
         \E r \in {StatusTable[variant, tried_start, o, o2]} :
         IF r.exc = "blocked"
         THEN /\ ui' = "hung"
              /\ tried_start' = (tried_start \/ r.tried)
              /\ UNCHANGED <<is_on, shown, label, trayIcon>>
              /\ ev' = MkEv("blocked", "timer", "ui", ShownOn, FALSE, NoArg, FALSE,
                            FALSE, FALSE, {})
         ELSE /\ ui' = "idle"
              /\ tried_start' = (tried_start \/ r.tried)
              /\ is_on' = r.ret
              /\ update_ui_mac(r.ret)
              /\ ev' = MkEv("poll", "timer", "ui", ShownOn, r.ret, NoArg, FALSE,
                            r.alerts > 0, TRUE, {"is_on", "labels"})
    /\ UNCHANGED <<procVars, variant, config, call, ext, tray, uiFrames,
                   uiArg, btn, afterQ, chains, workers, trayThreads,
                   startup_enabled, artifact>>

\* toggle_node with its two branches swapped (the fault C27 excludes)
toggle_node_mac_swapped(on) == IF on THEN "enable" ELSE "disable"

\* ExitNodeToggleApp.toggle_node: which executor call it makes
toggle_node_mac(on) == IF on THEN "disable" ELSE "enable"

\* ExitNodeToggleApp.toggle_node up to the start of the set command; the
\* frame of the handler holds original_title
MacToggleClick ==
    /\ variant \in {"mac", "macdist"} /\ ui = "idle"
    /\ uiFrames' = <<label>>
    /\ label' = "Working"
    /\ ui' = "set"
    /\ uiArg' = SetArg(toggle_node_mac(is_on), config)
    /\ ev' = MkEv("issue", "menu_item", "ui", ShownOn, is_on,
                  SetArg(toggle_node_mac(is_on), config), FALSE, FALSE, FALSE,
                  {"labels"})
    /\ UNCHANGED <<procVars, variant, config, tried_start, call, ext, tray,
                   is_on, shown, btn, afterQ, chains,
                   workers, trayIcon, trayThreads, startup_enabled, artifact>>

\* ExitNodeToggleApp.toggle_node from the return of the set command on
MacSetDone ==
    /\ variant \in {"mac", "macdist"} /\ ui = "set"
    /\ \E o \in AppSetRuns(variant), o2 \in AppSetRetries(variant) :
         \E r \in {call_set(variant, toggle_node_mac(is_on), config, tried_start, o, o2)} :
         LET e2 == ExtAfter(r)
             t2 == tried_start \/ r.tried
             how == SetOutcome(r, o, o2)
         IN
         IF r.exc = "blocked"
         THEN /\ ui' = "hung"
              /\ tried_start' = t2
              /\ UNCHANGED <<ext, is_on, shown, label, trayIcon, uiArg, uiFrames>>
              /\ ev' = MkEv("blocked", "menu_item", "ui", ShownOn, is_on, uiArg,
                            FALSE, FALSE, FALSE, {})
         ELSE IF r.ret
         THEN /\ ext' = e2
              /\ tried_start' = t2
              /\ is_on' = ~is_on
              /\ update_ui_mac(~is_on)
              /\ uiArg' = NoArg
              /\ ui' = "idle" /\ uiFrames' = <<>>
              /\ ev' = MkEvH("done", "menu_item", "ui", ShownOn, is_on, uiArg,
                             TRUE, r.alerts > 0, FALSE, {"is_on", "labels"}, how)
         ELSE \E s \in AppStatusRuns(variant, e2), s2 \in AppStatusRetries(variant, e2) :
              \E q \in {StatusTable[variant, t2, s, s2]} :
              IF q.exc = "blocked"
              THEN /\ ext' = e2
                   /\ tried_start' = (t2 \/ q.tried)
                   /\ ui' = "hung"
                   /\ uiArg' = NoArg
                   /\ UNCHANGED <<is_on, shown, label, trayIcon, uiFrames>>
                   /\ ev' = MkEvH("done", "menu_item", "ui", ShownOn, is_on, uiArg,
                                  FALSE, TRUE, TRUE, {}, how)
              ELSE /\ ext' = e2
                   /\ tried_start' = (t2 \/ q.tried)
                   /\ is_on' = q.ret
                   /\ update_ui_mac(q.ret)
                   /\ uiArg' = NoArg
                   /\ ui' = "idle" /\ uiFrames' = <<>>
                   /\ ev' = MkEvH("done", "menu_item", "ui", ShownOn, q.ret, uiArg,
                                  FALSE, TRUE, TRUE, {"is_on", "labels"}, how)
    /\ UNCHANGED <<procVars, variant, config, call, tray, btn,
                   afterQ, chains, workers, trayThreads, startup_enabled, artifact>>

\* ExitNodeToggleApp.toggle_startup
MacToggleStartup ==
    /\ proc = "run"
    /\ variant \in {"mac", "macdist"} /\ ui = "idle"
    /\ \E fsok \in BOOLEAN :
         LET m == IF startup_enabled THEN StartupManager_disable(variant, fsok, artifact)
                  ELSE StartupManager_enable(variant, fsok, artifact)
         IN  /\ artifact' = m.artifact
             /\ startup_enabled' = (IF m.ret THEN ~startup_enabled ELSE startup_enabled)
             /\ ev' = MkEv("startup", "menu_startup", "ui", ShownOn, is_on, NoArg,
                           m.ret, ~m.ret, FALSE,
                           IF m.ret THEN {"startup_enabled"} ELSE {})
    /\ UNCHANGED <<procVars, variant, config, tried_start, call, ext, tray,
                   ui, uiFrames, uiArg, is_on, shown, label,
                   btn, afterQ, chains, workers, trayIcon, trayThreads>>

\* ------------------------------------------------------- Linux, the window
\* refresh_status that leaves the text of the button as it was (the fault C19
\* excludes)
show_status_linux_button_text_kept(on) ==
    /\ is_on' = on
    /\ shown' = (IF on THEN "CONNECTED" ELSE "DIRECT")
    /\ label' = label

\* the presentation part of App.refresh_status
show_status_linux(on) ==
    /\ is_on' = on
    /\ shown' = (IF on THEN "CONNECTED" ELSE "DIRECT")
    /\ label' = (IF on THEN "Disable" ELSE "Enable")

\* App.refresh_status run by one of its timers; it re-arms that timer
LinuxRefreshTick ==
    /\ variant = "linux" /\ ui \in {"idle", "update"} /\ chains > 0
    /\ \E o \in AppStatusRuns(variant, ext) :
         \E r \in {StatusTable[variant, tried_start, o, o]} :
         /\ show_status_linux(r.ret)
         /\ ev' = MkEv("poll", "timer", "ui", ShownOn, r.ret, NoArg, FALSE, FALSE,
                       TRUE, {"is_on", "labels"})
    /\ UNCHANGED <<procVars, variant, config, tried_start, call, ext, tray,
                   ui, uiFrames, uiArg, btn, afterQ, chains,
                   workers, trayIcon, trayThreads, startup_enabled, artifact>>

\* App.on_toggle up to root.update()
LinuxOnToggle ==
    /\ variant = "linux" /\ ui \in {"idle", "update"}
    /\ btn = "normal" /\ Len(uiFrames) < MaxFrames
    /\ chains + Len(workers) + Len(uiFrames) + Len(afterQ) < MaxChains
    /\ btn' = "disabled"
    /\ label' = "Working"
    /\ uiFrames' = <<"button">> \o uiFrames
    /\ ui' = "update"
    /\ ev' = MkEv("request", "button", "ui", ShownOn, is_on, NoArg, FALSE, FALSE,
                  FALSE, {"labels"})
    /\ UNCHANGED <<procVars, variant, config, tried_start, call, ext, tray,
                   uiArg, is_on, shown, afterQ, chains, workers,
                   trayIcon, trayThreads, startup_enabled, artifact>>

\* App.on_toggle: root.update() has returned, the worker thread is started
LinuxSpawnWorker ==
    /\ variant = "linux" /\ ui = "update" /\ afterQ = <<>>
    /\ workers' = Append(workers, [pc |-> "start", op |-> "-", arg |-> NoArg])
    /\ uiFrames' = Tail(uiFrames)
    /\ ui' = (IF Tail(uiFrames) = <<>> THEN "idle" ELSE "update")
    /\ ev' = MkEv("spawn", "button", "ui", ShownOn, is_on, NoArg, FALSE, FALSE,
                  FALSE, {})
    /\ UNCHANGED <<procVars, variant, config, tried_start, call, ext, tray,
                   uiArg, is_on, shown, label, btn, afterQ,
                   chains, trayIcon, trayThreads, startup_enabled, artifact>>

\* App._worker: which executor call it makes
worker_linux(on) == IF on THEN "disable" ELSE "enable"

\* App._worker: reads is_on and starts the set command; when the executor
\* returns without running the binary the worker goes straight on to queue
\* its two callbacks
LinuxWorkerStart ==
    /\ variant = "linux"
    /\ \E i \in 1..Len(workers) :
         /\ workers[i].pc = "start"
         /\ LET op == worker_linux(is_on) IN
            IF ~RunsNothing(variant, op, config)
            THEN /\ workers' = [workers EXCEPT ![i] =
                        [pc |-> "set", op |-> op, arg |-> SetArg(op, config)]]
                 /\ afterQ' = afterQ
                 /\ ev' = MkEv("issue", "button", "worker", ShownOn, is_on,
                               SetArg(op, config), FALSE, FALSE, FALSE, {})
            ELSE /\ workers' = RemoveAt(workers, i)
                 /\ afterQ' = afterQ \o <<"enable_btn", "refresh_status">>
                 /\ ev' = MkEvH("done", "button", "worker", ShownOn, is_on, NoArg,
                                FALSE, FALSE, TRUE, {}, "skipped")
    /\ UNCHANGED <<procVars, variant, config, tried_start, call, ext, tray,
                   ui, uiFrames, uiArg, is_on, shown, label,
                   btn, chains, trayIcon, trayThreads, startup_enabled, artifact>>

\* App._worker from the return of the set command on
LinuxWorkerDone ==
    /\ variant = "linux"
    /\ \E i \in 1..Len(workers), o \in AppSetRuns(variant) :
         /\ workers[i].pc = "set"
         /\ \E r \in {call_set(variant, workers[i].op, config, tried_start, o, o)} :
                /\ ext' = ExtAfter(r)
                /\ ev' = MkEvH("done", "button", "worker", ShownOn, is_on,
                               workers[i].arg, r.ret, FALSE, TRUE, {},
                               SetOutcome(r, o, o))
         /\ workers' = RemoveAt(workers, i)
         /\ afterQ' = afterQ \o <<"enable_btn", "refresh_status">>
    /\ UNCHANGED <<procVars, variant, config, tried_start, call, tray, ui,
                   uiFrames, uiArg, is_on, shown, label, btn,
                   chains, trayIcon, trayThreads, startup_enabled, artifact>>

\* the lambda queued by _worker: the button is enabled again
LinuxEnableBtn ==
    /\ variant = "linux" /\ ui \in {"idle", "update"}
    /\ afterQ # <<>> /\ Head(afterQ) = "enable_btn"
    /\ afterQ' = Tail(afterQ)
    /\ btn' = "normal"
    /\ ev' = MkEv("after", "button", "ui", ShownOn, is_on, NoArg, FALSE, FALSE,
                  FALSE, {"button"})
    /\ UNCHANGED <<procVars, variant, config, tried_start, call, ext, tray,
                   ui, uiFrames, uiArg, is_on, shown, label,
                   chains, workers, trayIcon, trayThreads, startup_enabled, artifact>>

\* App.refresh_status queued by _worker; it arms a timer of its own
LinuxForcedRefresh ==
    /\ variant = "linux" /\ ui \in {"idle", "update"}
    /\ afterQ # <<>> /\ Head(afterQ) = "refresh_status"
    /\ afterQ' = Tail(afterQ)
    /\ chains' = chains + 1
    /\ \E o \in AppStatusRuns(variant, ext) :
         \E r \in {StatusTable[variant, tried_start, o, o]} :
         /\ show_status_linux(r.ret)
         /\ ev' = MkEv("poll", "forced", "ui", ShownOn, r.ret, NoArg, FALSE, FALSE,
                       TRUE, {"is_on", "labels"})
    /\ UNCHANGED <<procVars, variant, config, tried_start, call, ext, tray,
                   ui, uiFrames, uiArg, btn, workers, trayIcon,
                   trayThreads, startup_enabled, artifact>>

\* the checkbox flips chk_var, then App.toggle_startup
LinuxToggleStartup ==
    /\ proc = "run"
    /\ variant = "linux" /\ ui \in {"idle", "update"}
    /\ \E fsok \in BOOLEAN :
         LET want == ~startup_enabled
             m == IF want THEN StartupManager_enable(variant, fsok, artifact)
                  ELSE StartupManager_disable(variant, fsok, artifact)
         IN  /\ artifact' = m.artifact
             /\ startup_enabled' = want
             /\ ev' = MkEv("startup", "gui_startup", "ui", ShownOn, is_on, NoArg,
                           m.ret, FALSE, FALSE, {"startup_enabled"})
    /\ UNCHANGED <<procVars, variant, config, tried_start, call, ext, tray,
                   ui, uiFrames, uiArg, is_on, shown, label,
                   btn, afterQ, chains, workers, trayIcon, trayThreads>>

\* ---------------------------------------------------- Linux, the tray process
\* update_status run by the QTimer on the tray's main thread
TrayPoll ==
    /\ variant = "linux" /\ tray = "running"
    /\ \E o \in AppStatusRuns(variant, ext) :
         \E r \in {StatusTable[variant, FALSE, o, o]} :
         /\ trayIcon' = (IF r.ret THEN "on" ELSE "off")
         /\ ev' = MkEv("poll", "tray_timer", "qt", IconOn, r.ret, NoArg, FALSE,
                       FALSE, TRUE, {"tray_icon"})
    /\ UNCHANGED <<procVars, variant, config, tried_start, call, ext, tray,
                   ui, uiFrames, uiArg, is_on, shown, label,
                   btn, afterQ, chains, workers, trayThreads, startup_enabled,
                   artifact>>

\* on_activated (left click) and the "Toggle Exit Node" action: a new thread
\* is started on do_toggle, which runs the same for both
TrayActivate ==
    /\ variant = "linux" /\ tray = "running"
    /\ Len(trayThreads) < MaxTrayThreads
    /\ \E entry \in {"tray_click", "tray_menu"} :
         /\ trayThreads' = Append(trayThreads,
                                  [pc |-> "start", op |-> "-"])
         /\ ev' = MkEv("request", entry, "qt", IconOn, IconOn, NoArg, FALSE, FALSE,
                       FALSE, {})
    /\ UNCHANGED <<procVars, variant, config, tried_start, call, ext, tray,
                   ui, uiFrames, uiArg, is_on, shown, label,
                   btn, afterQ, chains, workers, trayIcon, startup_enabled,
                   artifact>>

\* do_toggle: which executor call it makes after its status read
do_toggle_linux(on) == IF on THEN "disable" ELSE "enable"

\* do_toggle: the status read and the start of the set command; when the
\* executor returns without running the binary update_status follows at once
\* on the same thread
TrayToggleStart ==
    /\ variant = "linux"
    /\ \E i \in 1..Len(trayThreads), s \in AppStatusRuns(variant, ext) :
         /\ trayThreads[i].pc = "start"
         /\ \E r \in {StatusTable[variant, FALSE, s, s]} :
            LET op == do_toggle_linux(r.ret)
            IN
            IF ~RunsNothing(variant, op, config)
            THEN /\ trayThreads' = [trayThreads EXCEPT ![i] =
                        [pc |-> "set", op |-> op]]
                 /\ trayIcon' = trayIcon
                 /\ ev' = MkEv("issue", "tray", "tray_worker", IconOn,
                               r.ret, SetArg(op, config), FALSE, FALSE, FALSE, {})
            ELSE \E s2 \in AppStatusRuns(variant, ext) :
                 \E q \in {StatusTable[variant, FALSE, s2, s2]} :
                 /\ trayThreads' = RemoveAt(trayThreads, i)
                 /\ trayIcon' = (IF q.ret THEN "on" ELSE "off")
                 /\ ev' = MkEvH("done", "tray", "tray_worker", IconOn,
                                q.ret, NoArg, FALSE, FALSE, TRUE, {"tray_icon"},
                                "skipped")
    /\ UNCHANGED <<procVars, variant, config, tried_start, call, ext, tray,
                   ui, uiFrames, uiArg, is_on, shown, label,
                   btn, afterQ, chains, workers, startup_enabled, artifact>>

\* do_toggle from the return of the set command on: update_status on the
\* same thread
TrayToggleDone ==
    /\ variant = "linux"
    /\ \E i \in 1..Len(trayThreads), o \in AppSetRuns(variant) :
         /\ trayThreads[i].pc = "set"
         /\ \E r \in {call_set(variant, trayThreads[i].op, config, FALSE, o, o)} :
            LET e2 == ExtAfter(r)
            IN  \E s \in AppStatusRuns(variant, e2) :
                \E q \in {StatusTable[variant, FALSE, s, s]} :
                /\ ext' = e2
                /\ trayIcon' = (IF q.ret THEN "on" ELSE "off")
                /\ ev' = MkEvH("done", "tray", "tray_worker", IconOn,
                               q.ret, SetArg(trayThreads[i].op, config), r.ret, FALSE, TRUE,
                               {"tray_icon"}, SetOutcome(r, o, o))
         /\ trayThreads' = RemoveAt(trayThreads, i)
    /\ UNCHANGED <<procVars, variant, config, tried_start, call, tray, ui,
                   uiFrames, uiArg, is_on, shown, label, btn,
                   afterQ, chains, workers, startup_enabled, artifact>>

\* ------------------------------------------------------------ environment
\* the exit node is switched by something else than this application
ExternalChange ==
    /\ ui # "init" \/ variant = "linux"
    /\ ext' = ~ext
    /\ ev' = MkEv("external", "none", "none", ShownOn, is_on, NoArg, FALSE, FALSE,
                  FALSE, {})
    /\ UNCHANGED <<procVars, variant, config, tried_start, call, tray, ui,
                   uiFrames, uiArg, is_on, shown, label, btn,
                   afterQ, chains, workers, trayIcon, trayThreads, startup_enabled,
                   artifact>>

Next ==
    \/ WinFirstRefresh \/ WinButtonClick \/ WinTrayToggle \/ WinRunTrayToggle
    \/ WinIssue \/ WinSetDone
    \/ MacFirstRefresh \/ MacTimerRefresh \/ MacToggleClick \/ MacSetDone
    \/ LinuxRefreshTick \/ LinuxOnToggle \/ LinuxSpawnWorker \/ LinuxWorkerStart
    \/ LinuxWorkerDone \/ LinuxEnableBtn \/ LinuxForcedRefresh
    \/ TrayPoll \/ TrayActivate \/ TrayToggleStart \/ TrayToggleDone
    \/ ExternalChange

Spec == Init /\ [][Next]_vars

\* SpecStartup: the start of the process with the configuration file it
\* meets, and the start-at-login handlers, which share no state with the
\* reconciliation of the exit node
NextStartup ==
    \/ AppInit
    \/ WinFirstRefresh \/ MacFirstRefresh
    \/ WinTrayToggleStartup \/ WinRunStartupText \/ WinGuiToggleStartup
    \/ MacToggleStartup \/ LinuxToggleStartup

SpecStartup == InitStart /\ [][NextStartup]_vars

\* SpecRegistrar: the Startup Registrar called on its own, a few calls one
\* after the other; `ok` says whether the registry or the file system lets the
\* call through
MaxCalls == 3

RegCall(op, ok, m) ==
    [op |-> op, ok |-> ok, before |-> artifact, ret |-> m.ret, after |-> m.artifact]

regVars == <<variant, config, tried_start, call, ext, tray, ui, uiFrames, uiArg, is_on,
             shown, label, btn, afterQ, chains, workers, trayIcon, trayThreads,
             startup_enabled, ev, proc, window, msgQ, sent, handled, cfgFile>>

CallIsEnabled ==
    /\ Len(reg) < MaxCalls
    /\ \E ok \in BOOLEAN :
         \E m \in {StartupManager_is_enabled(variant, ok, artifact)} :
            /\ artifact' = m.artifact
            /\ reg' = Append(reg, RegCall("is_enabled", ok, m))
    /\ UNCHANGED regVars

CallStartupEnable ==
    /\ Len(reg) < MaxCalls
    /\ \E ok \in BOOLEAN :
         \E m \in {StartupManager_enable(variant, ok, artifact)} :
            /\ artifact' = m.artifact
            /\ reg' = Append(reg, RegCall("enable", ok, m))
    /\ UNCHANGED regVars

CallStartupDisable ==
    /\ Len(reg) < MaxCalls
    /\ \E ok \in BOOLEAN :
         \E m \in {StartupManager_disable(variant, ok, artifact)} :
            /\ artifact' = m.artifact
            /\ reg' = Append(reg, RegCall("disable", ok, m))
    /\ UNCHANGED regVars

NextRegistrar == CallIsEnabled \/ CallStartupEnable \/ CallStartupDisable

SpecRegistrar == Init /\ [][NextRegistrar]_vars

\* ------------------------------------------- the window and the processes
\* SpecWindow: closing, showing and quitting in the two variants that have a
\* main window.  tray = "none" stands for a tray that never came up: tray
\* support missing (TRAY_SUPPORT, has_tray) or the tray process returned at
\* its start (PyQt5 or the icons missing).
\* messages the tray process sends in its life
MaxMsgs == 3

InitWindow == Init /\ variant \in {"win", "linux"}

\* App.hide_to_tray, the window's close handler on Windows while the tray
\* icon exists; setup_tray makes quit_app the close handler otherwise
WinHideToTray ==
    /\ variant = "win" /\ proc = "run" /\ ui = "idle" /\ window = "shown"
    /\ IF tray = "running"
       THEN window' = "hidden" /\ proc' = proc
       ELSE window' = window /\ proc' = "quit"
    /\ ev' = MkEv("close", "window", "ui", ShownOn, is_on, NoArg, FALSE, FALSE, FALSE, {})
    /\ UNCHANGED <<variant, config, tried_start, call, ext, tray, ui, uiFrames, uiArg,
                   is_on, shown, label, btn, afterQ, chains, workers, trayIcon,
                   trayThreads, startup_enabled, artifact, msgQ, sent, handled,
                   cfgFile, reg>>

\* App.show_window, called by the tray on its own thread
WinShowWindow ==
    /\ variant = "win" /\ proc = "run" /\ tray = "running"
    /\ Len(afterQ) < MaxAfter
    /\ afterQ' = Append(afterQ, "show_window")
    /\ ev' = MkEv("marshal", "tray_show", "pystray", ShownOn, is_on, NoArg, FALSE,
                  FALSE, FALSE, {})
    /\ UNCHANGED <<variant, config, tried_start, call, ext, tray, ui, uiFrames, uiArg,
                   is_on, shown, label, btn, chains, workers, trayIcon, trayThreads,
                   startup_enabled, artifact, procVars>>

\* App._show_window, run by the event loop
WinRunShowWindow ==
    /\ variant = "win" /\ proc = "run" /\ ui \in {"idle", "update"}
    /\ afterQ # <<>> /\ Head(afterQ) = "show_window"
    /\ afterQ' = Tail(afterQ)
    /\ window' = "shown"
    /\ ev' = MkEv("show", "tray_show", "ui", ShownOn, is_on, NoArg, FALSE, FALSE,
                  FALSE, {"window"})
    /\ UNCHANGED <<variant, config, tried_start, call, ext, tray, ui, uiFrames, uiArg,
                   is_on, shown, label, btn, chains, workers, trayIcon, trayThreads,
                   startup_enabled, artifact, proc, msgQ, sent, handled, cfgFile, reg>>

\* App.quit_app, called by the tray's Exit item
WinQuitApp ==
    /\ variant = "win" /\ proc = "run" /\ tray = "running"
    /\ tray' = "stopped"
    /\ proc' = "quit"
    /\ ev' = MkEv("quit", "tray_exit", "pystray", ShownOn, is_on, NoArg, FALSE, FALSE,
                  FALSE, {})
    /\ UNCHANGED <<variant, config, tried_start, call, ext, ui, uiFrames, uiArg,
                   is_on, shown, label, btn, afterQ, chains, workers, trayIcon,
                   trayThreads, startup_enabled, artifact, window, msgQ, sent,
                   handled, cfgFile, reg>>

\* App.on_close, the window's close handler on Linux
LinuxOnClose ==
    /\ variant = "linux" /\ proc = "run" /\ window = "shown"
    /\ window' = "hidden"
    /\ ev' = MkEv("close", "window", "ui", ShownOn, is_on, NoArg, FALSE, FALSE, FALSE, {})
    /\ UNCHANGED <<variant, config, tried_start, call, ext, tray, ui, uiFrames, uiArg,
                   is_on, shown, label, btn, afterQ, chains, workers, trayIcon,
                   trayThreads, startup_enabled, artifact, proc, msgQ, sent, handled,
                   cfgFile, reg>>

\* request_show_window of the tray process
TrayRequestShow ==
    /\ variant = "linux" /\ tray = "running" /\ Len(sent) < MaxMsgs
    /\ msgQ' = Append(msgQ, "show")
    /\ sent' = Append(sent, "show")
    /\ ev' = MkEv("send", "tray_show", "qt", IconOn, IconOn, NoArg, FALSE, FALSE,
                  FALSE, {})
    /\ UNCHANGED <<variant, config, tried_start, call, ext, tray, ui, uiFrames, uiArg,
                   is_on, shown, label, btn, afterQ, chains, workers, trayIcon,
                   trayThreads, startup_enabled, artifact, proc, window, handled,
                   cfgFile, reg>>

\* request_quit of the tray process: the message is put, then app.quit()
\* ends the tray process
TrayRequestQuit ==
    /\ variant = "linux" /\ tray = "running" /\ Len(sent) < MaxMsgs
    /\ msgQ' = Append(msgQ, "quit")
    /\ sent' = Append(sent, "quit")
    /\ tray' = "exited"
    /\ ev' = MkEv("send", "tray_quit", "qt", IconOn, IconOn, NoArg, FALSE, FALSE,
                  FALSE, {})
    /\ UNCHANGED <<variant, config, tried_start, call, ext, ui, uiFrames, uiArg,
                   is_on, shown, label, btn, afterQ, chains, workers, trayIcon,
                   trayThreads, startup_enabled, artifact, proc, window, handled,
                   cfgFile, reg>>

\* a get that hands out the newest message (the fault C30 excludes)
queue_get_newest(q) == [msg |-> q[Len(q)], rest |-> SubSeq(q, 1, Len(q) - 1)]

\* msg_queue.get_nowait(): the oldest message of the queue
queue_get(q) == [msg |-> Head(q), rest |-> Tail(q)]

\* the while loop of App.check_queue: show_window() for "show", quit_app()
\* for "quit", until the queue is empty
RECURSIVE check_queue_loop(_, _)
check_queue_loop(q, st) ==
    IF q = <<>> THEN st
    ELSE LET g == queue_get(q)
         IN  check_queue_loop(g.rest,
                 [handled |-> Append(st.handled, g.msg),
                  window |-> IF g.msg = "show" THEN "shown" ELSE st.window,
                  quit |-> st.quit \/ g.msg = "quit"])

\* App.check_queue, run by its 500 ms timer, which it re-arms; root.quit()
\* makes the main loop return when the handler has returned
LinuxCheckQueue ==
    /\ variant = "linux" /\ proc = "run" /\ ui \in {"idle", "update"}
    /\ \E st \in {check_queue_loop(msgQ, [handled |-> handled, window |-> window,
                                          quit |-> FALSE])} :
         /\ handled' = st.handled
         /\ window' = st.window
         /\ proc' = (IF st.quit THEN "quitting" ELSE proc)
    /\ msgQ' = <<>>
    /\ ev' = MkEv("queue", "check_queue", "ui", ShownOn, is_on, NoArg, FALSE, FALSE,
                  FALSE, IF msgQ = <<>> THEN {} ELSE {"window"})
    /\ UNCHANGED <<variant, config, tried_start, call, ext, tray, ui, uiFrames, uiArg,
                   is_on, shown, label, btn, afterQ, chains, workers, trayIcon,
                   trayThreads, startup_enabled, artifact, sent, cfgFile, reg>>

\* App.quit_app, the "Quit App" button of the window
LinuxQuitApp ==
    /\ variant = "linux" /\ proc = "run" /\ window = "shown"
    /\ proc' = "quitting"
    /\ ev' = MkEv("quit", "window", "ui", ShownOn, is_on, NoArg, FALSE, FALSE, FALSE, {})
    /\ UNCHANGED <<variant, config, tried_start, call, ext, tray, ui, uiFrames, uiArg,
                   is_on, shown, label, btn, afterQ, chains, workers, trayIcon,
                   trayThreads, startup_enabled, artifact, window, msgQ, sent,
                   handled, cfgFile, reg>>

\* main(): root.mainloop() has returned; the finally clause terminates a tray
\* process that is alive
LinuxMainExit ==
    /\ variant = "linux" /\ proc = "quitting"
    /\ proc' = "quit"
    /\ tray' = (IF tray = "running" THEN "terminated" ELSE tray)
    /\ ev' = MkEv("exit", "main", "ui", ShownOn, is_on, NoArg, FALSE, FALSE, FALSE, {})
    /\ UNCHANGED <<variant, config, tried_start, call, ext, ui, uiFrames, uiArg,
                   is_on, shown, label, btn, afterQ, chains, workers, trayIcon,
                   trayThreads, startup_enabled, artifact, window, msgQ, sent,
                   handled, cfgFile, reg>>

NextWindow ==
    \/ WinFirstRefresh \/ WinHideToTray \/ WinShowWindow \/ WinRunShowWindow
    \/ WinQuitApp
    \/ LinuxOnClose \/ TrayRequestShow \/ TrayRequestQuit \/ LinuxCheckQueue
    \/ LinuxQuitApp \/ LinuxMainExit

\* the event loop runs a timer that is due and a callback that is queued; a
\* main loop that was told to quit returns
WindowScheduling ==
    /\ WF_vars(LinuxCheckQueue) /\ WF_vars(LinuxMainExit)
    /\ WF_vars(WinFirstRefresh) /\ WF_vars(WinRunShowWindow)

SpecWindow == InitWindow /\ [][NextWindow]_vars /\ WindowScheduling

\* ------------------------------------------------ exceptions in handlers
\* SpecFault: the handlers when a call into the toolkit raises inside them
\* (a widget that no longer exists, a notification centre that cannot be set
\* up, an icon that cannot be loaded).  `at` names the call that raises.
ok0 == ExitWith(0, <<>>, "")

\* App.toggle_node on Windows, the set command having succeeded, when
\* update_ui raises: at its first widget call or in update_tray_icon.  There
\* is no except clause: `finally` enables the button and the exception goes
\* to Tk's callback reporter, which prints it
WinToggleRaises ==
    /\ variant = "win" /\ proc = "run" /\ ui = "set"
    /\ \E at \in {"status_dot"} \cup (IF tray = "running" THEN {"tray_icon"} ELSE {}) :
       \E r \in {call_set(variant, toggle_node_win(is_on), config, tried_start, ok0, ok0)} :
         /\ r.exc = "none" /\ r.ret
         /\ ext' = ExtAfter(r)
         /\ is_on' = ~is_on
         /\ IF at = "status_dot"
            THEN UNCHANGED <<shown, label>>
            ELSE /\ shown' = (IF ~is_on THEN "CONNECTED" ELSE "DIRECT")
                 /\ label' = (IF ~is_on THEN "Disable" ELSE "Enable")
         /\ trayIcon' = trayIcon
         /\ btn' = "normal"
         /\ uiFrames' = Tail(uiFrames)
         /\ uiArg' = NoArg
         /\ ui' = (IF Tail(uiFrames) = <<>> THEN "idle" ELSE "update")
         /\ ev' = MkEvH("raised", Head(uiFrames), "ui", ShownOn, is_on, uiArg, TRUE,
                        FALSE, FALSE,
                        IF at = "status_dot" THEN {"is_on"} ELSE {"is_on", "labels"},
                        at)
    /\ UNCHANGED <<procVars, variant, config, tried_start, call, tray, afterQ,
                   chains, workers, trayThreads, startup_enabled, artifact>>

\* ExitNodeToggleApp.toggle_node, the set command having succeeded, when
\* update_ui raises at its first assignment or rumps.notification raises
\* after it: the except clause shows the alert and puts the title of the
\* toggle item back
MacToggleRaises ==
    /\ variant \in {"mac", "macdist"} /\ proc = "run" /\ ui = "set"
    /\ \E at \in {"title", "notification"} :
       \E r \in {call_set(variant, toggle_node_mac(is_on), config, tried_start, ok0, ok0)} :
         /\ r.exc = "none" /\ r.ret
         /\ ext' = ExtAfter(r)
         /\ tried_start' = (tried_start \/ r.tried)
         /\ is_on' = ~is_on
         /\ IF at = "title"
            THEN UNCHANGED <<shown, trayIcon>>
            ELSE /\ shown' = (IF ~is_on THEN "CONNECTED" ELSE "DIRECT")
                 /\ trayIcon' = (IF ~is_on THEN "on" ELSE "off")
         /\ label' = Head(uiFrames)
         /\ uiFrames' = <<>>
         /\ uiArg' = NoArg
         /\ ui' = "idle"
         /\ ev' = MkEvH("raised", "menu_item", "ui", ShownOn, is_on, uiArg, TRUE,
                        TRUE, FALSE, {"is_on", "labels"}, at)
    /\ UNCHANGED <<procVars, variant, config, call, tray, btn, afterQ,
                   chains, workers, trayThreads, startup_enabled, artifact>>

\* ExitNodeToggleApp.timer_refresh when update_ui raises at its first
\* assignment: nothing catches it in the application
MacTimerRaises ==
    /\ variant \in {"mac", "macdist"} /\ proc = "run" /\ ui = "idle" /\ chains > 0
    /\ \E o \in AppStatusRuns(variant, ext), o2 \in AppStatusRetries(variant, ext) :
         \E r \in {StatusTable[variant, tried_start, o, o2]} :
         /\ r.exc = "none"
         /\ tried_start' = (tried_start \/ r.tried)
         /\ is_on' = r.ret
         /\ ev' = MkEvH("raised", "timer", "ui", ShownOn, r.ret, NoArg, FALSE,
                        r.alerts > 0, TRUE, {"is_on"}, "title")
    /\ UNCHANGED <<procVars, variant, config, call, ext, tray, ui, uiFrames, uiArg,
                   shown, label, btn, afterQ, chains, workers, trayIcon, trayThreads,
                   startup_enabled, artifact>>

\* App.refresh_status of the Linux window when status_lbl.config raises:
\* nothing catches it, and the timer is not armed again
LinuxRefreshRaises ==
    /\ variant = "linux" /\ proc = "run" /\ ui \in {"idle", "update"} /\ chains > 0
    /\ \E o \in AppStatusRuns(variant, ext) :
         \E r \in {StatusTable[variant, tried_start, o, o]} :
         /\ is_on' = r.ret
         /\ ev' = MkEvH("raised", "timer", "ui", ShownOn, r.ret, NoArg, FALSE, FALSE,
                        TRUE, {"is_on"}, "status_lbl")
    /\ chains' = chains - 1
    /\ UNCHANGED <<procVars, variant, config, tried_start, call, ext, tray, ui,
                   uiFrames, uiArg, shown, label, btn, afterQ, workers, trayIcon,
                   trayThreads, startup_enabled, artifact>>

\* update_status of the Linux tray when setIcon raises: the except clause
\* writes a log record
TrayPollRaises ==
    /\ variant = "linux" /\ tray = "running"
    /\ \E o \in AppStatusRuns(variant, ext) :
         \E r \in {StatusTable[variant, FALSE, o, o]} :
         ev' = MkEvH("raised", "tray_timer", "qt", IconOn, r.ret, NoArg, FALSE, FALSE,
                     TRUE, {}, "setIcon")
    /\ UNCHANGED <<procVars, variant, config, tried_start, call, ext, tray, ui,
                   uiFrames, uiArg, is_on, shown, label, btn, afterQ, chains, workers,
                   trayIcon, trayThreads, startup_enabled, artifact>>

\* App.check_queue when show_window raises on the first message: the bare
\* except passes, the message is gone, the timer is armed again
LinuxCheckQueueRaises ==
    /\ variant = "linux" /\ proc = "run" /\ ui \in {"idle", "update"}
    /\ msgQ # <<>> /\ queue_get(msgQ).msg = "show"
    /\ msgQ' = queue_get(msgQ).rest
    /\ handled' = Append(handled, queue_get(msgQ).msg)
    /\ ev' = MkEvH("raised", "check_queue", "ui", ShownOn, is_on, NoArg, FALSE, FALSE,
                   FALSE, {}, "deiconify")
    /\ UNCHANGED <<variant, config, tried_start, call, ext, tray, ui, uiFrames, uiArg,
                   is_on, shown, label, btn, afterQ, chains, workers, trayIcon,
                   trayThreads, startup_enabled, artifact, proc, window, sent,
                   cfgFile, reg>>

NextFault ==
    \/ WinFirstRefresh \/ WinButtonClick \/ WinIssue \/ WinSetDone \/ WinToggleRaises
    \/ MacFirstRefresh \/ MacToggleClick \/ MacSetDone \/ MacToggleRaises
    \/ MacTimerRaises
    \/ LinuxRefreshTick \/ LinuxRefreshRaises \/ TrayPoll \/ TrayPollRaises
    \/ TrayRequestShow \/ LinuxCheckQueue \/ LinuxCheckQueueRaises

SpecFault == Init /\ [][NextFault]_vars

\* SpecLive: Spec with the scheduling the toolkits give.  A started subprocess
\* call returns or blocks, a started thread runs, a callback queued with
\* root.after(0, ...) is run by the event loop (weak fairness); a timer that is
\* armed fires whenever the event loop comes back to it (strong fairness).
\* Nothing obliges the user to click or the exit node to change.
Scheduling ==
    /\ WF_vars(WinFirstRefresh) /\ WF_vars(MacFirstRefresh)
    /\ WF_vars(WinIssue) /\ WF_vars(WinSetDone) /\ WF_vars(MacSetDone)
    /\ WF_vars(WinRunTrayToggle)
    /\ WF_vars(LinuxSpawnWorker) /\ WF_vars(LinuxWorkerStart)
    /\ WF_vars(LinuxWorkerDone) /\ WF_vars(LinuxEnableBtn)
    /\ WF_vars(LinuxForcedRefresh)
    /\ WF_vars(TrayToggleStart) /\ WF_vars(TrayToggleDone)
    /\ SF_vars(MacTimerRefresh) /\ SF_vars(LinuxRefreshTick) /\ SF_vars(TrayPoll)

SpecLive == Init /\ [][Next]_vars /\ Scheduling

(***************************************************************************)
(* Properties of the Status Reader and the Toggle Executor (SpecCli).     *)
(***************************************************************************)
StatusDone == call.op = "get_status" /\ call.done
EnableDone == call.op = "enable" /\ call.done

\* the run of the binary whose result the call went by: the retry, if one was made
UsedRun == IF call.res.n >= 2 THEN call.o2 ELSE call.o1

UsedDoc == json_loads(UsedRun.out)

\* the used run exited with code 0 and printed a well-formed JSON object
PrintedObject ==
    /\ UsedRun.kind = "exit" /\ UsedRun.rc = 0
    /\ UsedDoc.exc = "none" /\ UsedDoc.val.t = "obj"

ReturnsInactive ==
    /\ call.res.exc = "none"
    /\ call.res.ret = FALSE
    /\ call.res.node = PyNone

\* C1: a status run that exits with 0 and prints a JSON object yields
\* (true, non-empty identifier) when the object has an ExitNodeStatus member
\* and (false, None) when it has none, in every variant.
C1_ActiveIffFieldPresent ==
    (StatusDone /\ PrintedObject) =>
        IF HasKey(UsedDoc.val, "ExitNodeStatus")
        THEN /\ call.res.exc = "none"
             /\ call.res.ret = TRUE
             /\ call.res.node.t = "str" /\ call.res.node.s # ""
        ELSE ReturnsInactive

\* C2: an ExitNodeStatus entry without an ID member yields (true, "Unknown");
\* with an ID member the identifier returned is that ID value.
C2_UnknownFallback ==
    (StatusDone /\ PrintedObject /\ HasKey(UsedDoc.val, "ExitNodeStatus")
       /\ DictGet(UsedDoc.val, "ExitNodeStatus", PyNone).t = "obj") =>
        LET entry == DictGet(UsedDoc.val, "ExitNodeStatus", PyNone)
        IN  /\ call.res.exc = "none"
            /\ call.res.ret = TRUE
            /\ call.res.node = IF HasKey(entry, "ID")
                               THEN DictGet(entry, "ID", PyNone)
                               ELSE PyStr("Unknown")

\* C3: a non-zero exit code of the status command, or a stdout that is not
\* JSON, yields (false, None) and no exception leaves get_status.
C3_FailureDegrades ==
    (StatusDone /\ UsedRun.kind = "exit"
       /\ (UsedRun.rc # 0 \/ UsedDoc.exc # "none")) => ReturnsInactive

C3_Witness ==
    /\ StatusDone /\ UsedRun.kind = "exit" /\ UsedRun.rc = 0
    /\ UsedDoc.exc = "JSONDecodeError" /\ Len(UsedRun.out) > 2
    /\ ReturnsInactive

\* C4: when the binary cannot be found, get_status yields (false, None) and
\* no exception leaves it, in every variant.
C4_NotFoundDegrades ==
    (StatusDone /\ UsedRun.kind = "notfound") => ReturnsInactive

C4_Witness ==
    /\ StatusDone /\ UsedRun.kind = "notfound" /\ variant = "win"
    /\ ReturnsInactive /\ call.res.alerts = 1

\* C5: enable with an invalid configuration (identifier empty or the
\* sentinel) fails and does not run the binary, in every variant.
C5_InvalidConfigNoInvoke ==
    (EnableDone /\ InvalidIp(config.exit_node_ip)) =>
        /\ call.res.ret = FALSE
        /\ call.res.n = 0

(***************************************************************************)
(* Properties of the toggle handling of the applications (Spec).          *)
(***************************************************************************)
\* do_toggle, which the Linux tray's menu item and click both start
TrayEntries == {"tray"}

\* the displayed state, CONNECTED or not, on the surface an entry point
\* belongs to: the tray icon for the Linux tray process, the window or menu
\* otherwise
DisplayedOn(entry) == IF entry \in TrayEntries THEN IconOn ELSE ShownOn

\* the last step started a set command
Issued == ev.kind = "issue"

\* the last step handled the return of a set command
SetReturned == ev.kind = "done" /\ ev.how \notin {"skipped", "-"}

\* C6: the set command a toggle request issues is the inverse of the state
\* displayed at that moment: --exit-node= (empty) when CONNECTED, the
\* configured identifier when DIRECT, at every toggle entry point.
C6_InverseOfDisplayed ==
    Issued => ev.arg = (IF ev.shown THEN "" ELSE config.exit_node_ip)

\* C6 (amended): at the window button, the Windows tray item and the macOS
\* menu item the set command is the inverse of the displayed state; at the
\* Linux tray's menu item and click it is the inverse of the status that
\* do_toggle reads at that moment, whatever the tray icon displays.
C6_InverseOfDisplayedOrRead ==
    Issued =>
        ev.arg = (IF (IF ev.entry \in TrayEntries THEN ev.read ELSE ev.shown)
                  THEN "" ELSE config.exit_node_ip)

C6_Witness ==
    /\ Issued /\ ev.entry = "tray" /\ variant = "linux"
    /\ ev.read /\ ~ev.shown /\ ev.arg = ""

\* C7: when the set command succeeds, the displayed state after the handler
\* is the inverse of the displayed state before it.
C7_FlipOnSuccess ==
    (SetReturned /\ ev.ok) => DisplayedOn(ev.entry) = ~ev.shown

\* C7 (amended): in the Windows and macOS variants a successful set command
\* flips the displayed state in the toggle handler itself; the Linux variant
\* does not flip: the window keeps what it displays and queues a status
\* refresh, the tray shows the status it reads after the command.
C7_FlipOnSuccessWinMac ==
    (SetReturned /\ ev.ok) =>
        IF variant # "linux"
        THEN /\ DisplayedOn(ev.entry) = ~ev.shown
             /\ is_on = DisplayedOn(ev.entry)
        ELSE IF ev.entry \in TrayEntries
        THEN IconOn = ev.read
        ELSE /\ ShownOn = ev.shown
             /\ \E i \in 1..Len(afterQ) : afterQ[i] = "refresh_status"

C7_Witness ==
    /\ SetReturned /\ ev.ok /\ variant = "win" /\ ev.entry = "tray_item"
    /\ ~ev.shown /\ ShownOn /\ is_on

\* C8: when the set command of a toggle exits with a non-zero code, an error
\* is shown to the user, a status refresh is forced, and the displayed state
\* is not flipped: it stays what it was unless that refresh read otherwise.
C8_FailureSurfaced ==
    (SetReturned /\ ev.how = "nonzero") =>
        /\ ev.alerted
        /\ ev.refreshed
        /\ (DisplayedOn(ev.entry) # ev.shown => DisplayedOn(ev.entry) = ev.read)

\* the set commands that have been started and have not returned
InFlight ==
    (IF ui = "set" \/ (ui = "hung" /\ uiArg # NoArg) THEN 1 ELSE 0)
    + Cardinality({i \in 1..Len(workers) : workers[i].pc = "set"})
    + Cardinality({i \in 1..Len(trayThreads) : trayThreads[i].pc = "set"})

\* C9: at any time at most one set command is in flight, over all toggle
\* entry points of a variant.
C9_SingleFlight == InFlight <= 1

\* C10: every write of presentation state (icon, labels, is_on, checkbox
\* variables) is made by the thread that runs the event loop of its process.
C10_UiThreadOnly ==
    ev.wrote # {} => ev.thread \in {"ui", "qt"}


(***************************************************************************)
(* Properties of the polling loop (SpecLive, Spec).                       *)
(***************************************************************************)
\* a step in which the Status Reader was invoked for a display
StatusReadTaken == ev.kind = "poll" \/ (ev.kind = "done" /\ ev.refreshed /\ ev.wrote # {})

\* C11: in every variant the status is polled for the whole lifetime of the
\* process: once the exit node has been switched from outside and stays as it
\* is, a later status read for the display is always taken (unless the UI
\* thread is stuck in a subprocess call that never returns).  A step of
\* ExternalChange leaves ev.kind = "external".
C11_PollFollowsChange ==
    \A b \in BOOLEAN :
        []((ev.kind = "external" /\ [](ext = b)) => <>(StatusReadTaken \/ ui = "hung"))

\* the step is a poll (a status refresh that no toggle forced) of the window
\* or menu, made while CONNECTED or DIRECT is displayed, and it reads what is
\* displayed
WindowPollReadsDisplayed ==
    /\ ev'.kind = "poll" /\ ev'.entry \in {"timer", "launch"}
    /\ shown \in {"CONNECTED", "DIRECT"}
    /\ ev'.read = ShownOn

\* the same for the poll of the Linux tray process and its icon
TrayPollReadsDisplayed ==
    /\ ev'.kind = "poll" /\ ev'.entry = "tray_timer"
    /\ ev'.read = IconOn

\* C12: a poll updates the presentation (icon, label, menu text) only if the
\* status it reads differs from the last displayed state; when they are equal
\* the poll writes no presentation state at all.
C12_PollWritesOnlyOnChange ==
    [][(WindowPollReadsDisplayed \/ TrayPollReadsDisplayed) => ev'.wrote = {}]_vars

\* C13: the completion of every toggle operation, whether its set command
\* succeeded or failed, forces a status refresh: the handler that takes the
\* return of the set command reads the status again or queues that read.
C13_CompletionForcesRefresh == SetReturned => ev.refreshed

\* the last step completed a status refresh of the window or menu
RefreshCompleted ==
    /\ ev.entry \notin TrayEntries \cup {"tray_timer"}
    /\ ev.kind = "poll" \/ (ev.kind = "done" /\ ev.refreshed /\ ev.wrote # {})

\* C19: after a status refresh completes, the displayed state is CONNECTED
\* and the toggle control reads "Disable" exactly when the status read
\* reported an active exit node; otherwise DIRECT and "Enable".
C19_RefreshShowsStatus ==
    RefreshCompleted =>
        /\ shown = (IF ev.read THEN "CONNECTED" ELSE "DIRECT")
        /\ label = (IF ev.read THEN "Disable" ELSE "Enable")

C19_Witness ==
    /\ RefreshCompleted /\ variant = "linux" /\ ev.entry = "forced"
    /\ ev.read /\ shown = "CONNECTED" /\ label = "Disable"

\* the display as it is at launch
InitialDisplay == ~is_on /\ shown = "Checking" /\ trayIcon = "off"

\* the step shows what a status read returned, on the surface that read it
ShowsStatusRead ==
    /\ ev'.kind = "poll" \/ (ev'.kind = "done" /\ ev'.refreshed /\ ev'.wrote # {})
    /\ IF ev'.entry \in TrayEntries \cup {"tray_timer"}
       THEN IconOn' = ev'.read /\ UNCHANGED <<is_on, shown>>
       ELSE is_on' = ev'.read /\ ShownOn' = ev'.read

\* the step completes a toggle whose set command succeeded, and flips
ShowsToggle ==
    /\ ev'.kind = "done" /\ ev'.ok
    /\ is_on' = ~is_on /\ ShownOn' = is_on'

\* C20: from launch until the first status read completes the displayed state
\* is DIRECT/unknown (is_on false, the "off" icon), and nothing but the result
\* of a status read or a successful toggle ever replaces the displayed state.
C20_InitialUntilRead ==
    /\ InitialDisplay
    /\ [][/\ ui' = "init" => InitialDisplay'
          /\ <<is_on, shown, trayIcon>>' # <<is_on, shown, trayIcon>>
                => ShowsStatusRead \/ ShowsToggle]_vars

C20_Witness ==
    /\ variant = "win" /\ ui = "init" /\ afterQ # <<>>
    /\ InitialDisplay

(***************************************************************************)
(* Properties of the Toggle Executor and of _run_tailscale (SpecCli).     *)
(***************************************************************************)
\* enable_exit_node or disable_exit_node has been called
SetCallDone == call.op \in {"enable", "disable"} /\ call.done

\* the step is a call of the reader or the executor
CallStep == ~call.done /\ call'.done

ExitedZero(o) == o.kind = "exit" /\ o.rc = 0

\* _run_tailscale's test on the captured output of a run: the GUI is down
GuiDownReported(o) ==
    o.kind = "exit"
    /\ (StdoutHasFailedToStart(o.out) \/ ContainsFailedToStart(Lower(o.err)))

C15_ResultIsExitCode ==
    (SetCallDone /\ call.res.exc = "none") =>
        /\ call.res.ret = (call.res.n >= 1 /\ ExitedZero(UsedRun))
        /\ (call.res.n >= 1 =>
               call.res.arg = (IF call.op = "disable" THEN ""
                               ELSE config.exit_node_ip))

C15_Witness ==
    /\ EnableDone /\ call.res.ret /\ ExitedZero(UsedRun)
    /\ config.exit_node_ip # "" /\ call.res.arg = config.exit_node_ip

\* C16: disable_exit_node called while the exit node is already disabled
\* still runs the external command, returns success whenever that command
\* exits with code 0, and leaves the exit node disabled, however many times
\* it is repeated.
C16_DisableIdempotent ==
    [][(call.op = "disable" /\ CallStep /\ ~ext) =>
          /\ call'.res.n >= 1
          /\ (ExitedZero(IF call'.res.n >= 2 THEN call.o2 ELSE call.o1) =>
                 call'.res.exc = "none" /\ call'.res.ret)
          /\ ~ext']_vars

C16_Witness ==
    call.op = "disable" /\ call.done /\ call.rep = MaxRepeat /\ call.res.ret /\ call.res.n >= 1 /\ ~ext

\* an error of the external process: not found, non-zero exit code, or it
\* never exits
ExternalError(o) ==
    o.kind \in {"notfound", "hang"} \/ (o.kind = "exit" /\ o.rc # 0)

\* C17: every error of the external process met by enable_exit_node or
\* disable_exit_node (binary not found, non-zero exit code, timeout) is
\* recovered to a false result: the call returns FALSE and raises nothing.
C17_ErrorsRecovered ==
    (SetCallDone /\ call.res.n >= 1 /\ ExternalError(UsedRun)) =>
        call.res.exc = "none" /\ ~call.res.ret

\* C18: every run of the binary by get_status, enable_exit_node and
\* disable_exit_node is bounded by a timeout: the call always returns, even
\* when the external process never exits.
C18_AlwaysReturns == call.done => call.res.exc # "blocked"


(***************************************************************************)
(* Properties of the refresh timers and of the optimistic flip (Spec).    *)
(***************************************************************************)
\* C25: in the Linux window at most one self-rescheduling refresh_status
\* timer is pending at any time: the completion of a toggle adds no further
\* perpetual poll chain to the one started at launch.
C25_SingleRefreshChain == variant = "linux" => chains <= 1

\* C26: whenever a successful toggle flips the displayed state to CONNECTED,
\* the set command just issued carried a non-empty exit-node identifier: the
\* display never becomes CONNECTED by a command of the disable form, for any
\* loaded configuration.
C26_ConnectedOnlyByEnable ==
    (SetReturned /\ ev.ok /\ "is_on" \in ev.wrote /\ ~ev.shown /\ ShownOn)
        => ev.arg # ""

\* C27: in the Windows and macOS variants, with a valid configuration, when
\* the set command of a toggle succeeds and takes effect, the displayed state
\* right after the flip equals the exit node as the VPN client has it, also
\* when the displayed state was stale before the command returned.
C27_FlipMatchesExitNode ==
    (SetReturned /\ ev.ok /\ variant # "linux" /\ config.valid)
        => /\ ShownOn = ext
           /\ is_on = ext

\* the display was stale (CONNECTED shown, exit node off) when the command
\* returned, and shows the exit node after the flip
C27_Witness ==
    /\ SetReturned /\ ev.ok /\ variant = "win" /\ config.valid
    /\ ev.shown /\ ~ev.was /\ ~ShownOn /\ ~ext


(***************************************************************************)
(* Properties of the logging of the Status Reader (SpecCli).              *)
(***************************************************************************)
\* C22: every failed status read (non-zero exit code, malformed output, or
\* binary not found) has appended at least one log record when get_status
\* returns, in every variant.
C22_FailedReadLogged ==
    (/\ StatusDone /\ call.res.exc = "none"
     /\ \/ UsedRun.kind = "notfound"
        \/ UsedRun.kind = "exit" /\ (UsedRun.rc # 0 \/ UsedDoc.exc # "none"))
        => call.res.logs >= 1


(***************************************************************************)
(* Properties of the start of the process (SpecStartup).                  *)
(***************************************************************************)
\* the file is missing or not parsable, or its identifier is empty or the
\* sentinel
ConfigError(f) == f.state # "ok" \/ InvalidIp(f.ip)

\* C23: a configuration error is surfaced once through a blocking alert at
\* start-up, after which the application either goes on running unconfigured
\* or exits by its own choice.
C23_ConfigErrorAlerted ==
    (proc # "start" /\ cfgFile # NoFile /\ ConfigError(cfgFile))
        => config.alerts = 1 /\ proc \in {"run", "quit"}

\* C29: after every start-at-login handler returns, the displayed state
\* (checkbox variable or menu item state) equals the existence of the
\* autostart artifact, also when enable() or disable() failed, provided that
\* they were equal before and nothing else changes the artifact.
C29_StartupDisplayMatches ==
    [][(ev'.kind = "startup" /\ startup_enabled = artifact)
          => startup_enabled' = artifact']_vars


(***************************************************************************)
(* Properties of the Startup Registrar (SpecRegistrar).                   *)
(***************************************************************************)
\* C24: the registrar is idempotent and is_enabled() is a pure existence
\* check: after enable() succeeds is_enabled() is true, after disable()
\* succeeds it is false, enable() twice leaves the same state as once,
\* disable() on an absent artifact returns success and changes nothing, and
\* is_enabled() never changes the artifact.
C24_RegistrarIdempotent ==
    \A i \in 1..Len(reg) :
        LET c == reg[i] IN
        /\ c.op = "is_enabled" => c.after = c.before /\ c.ret = c.before
        /\ (c.op = "enable" /\ c.ret) => c.after
        /\ (c.op = "disable" /\ c.ret) => ~c.after
        /\ (c.op = "disable" /\ ~c.before) => ~c.after /\ c.ret
        /\ i > 1 =>
             LET p == reg[i - 1] IN
             /\ (p.op = "enable" /\ p.ret /\ c.op = "enable" /\ c.ret)
                    => c.after = p.after
             /\ (p.op = "enable" /\ p.ret /\ c.op = "is_enabled") => c.ret
             /\ (p.op = "disable" /\ p.ret /\ c.op = "is_enabled") => ~c.ret

\* C24 (amended): as C24 wherever the platform lets the call through; on
\* Windows is_enabled() answers false when the Run key cannot be opened, and
\* disable() on an absent value opens the key first and fails, changing
\* nothing, when that is refused.  On Linux and macOS disable() touches
\* nothing when the artifact is absent and always succeeds.
C24_RegistrarIdempotentWhenAccessible ==
    \A i \in 1..Len(reg) :
        LET c == reg[i]
            through == c.ok \/ variant # "win"
        IN
        /\ c.op = "is_enabled" =>
              c.after = c.before /\ c.ret = (through /\ c.before)
        /\ (c.op = "enable" /\ c.ret) => c.after
        /\ (c.op = "disable" /\ c.ret) => ~c.after
        /\ (c.op = "disable" /\ ~c.before) => ~c.after /\ c.ret = through
        /\ i > 1 =>
             LET p == reg[i - 1] IN
             /\ (p.op = "enable" /\ p.ret /\ c.op = "enable" /\ c.ret)
                    => c.after = p.after
             /\ (p.op = "enable" /\ p.ret /\ c.op = "is_enabled" /\ through) => c.ret
             /\ (p.op = "disable" /\ p.ret /\ c.op = "is_enabled") => ~c.ret

\* enable() on an absent artifact, enable() again, then is_enabled()
C24_Witness ==
    /\ Len(reg) = 3
    /\ reg[1].op = "enable" /\ ~reg[1].before /\ reg[1].ret
    /\ reg[2].op = "enable" /\ reg[2].ret /\ reg[2].after
    /\ reg[3].op = "is_enabled" /\ reg[3].ret /\ artifact


(***************************************************************************)
(* Properties of the window and of the two Linux processes (SpecWindow).  *)
(***************************************************************************)
\* C28: a close request hides the main window only while a working tray icon
\* exists that can show it again; when there is no tray, closing the window
\* quits the application.
C28_HideOnlyWithTray ==
    [][ev'.kind = "close" =>
          IF tray = "running" THEN window' = "hidden" /\ proc' = "run"
          ELSE window' # "hidden" /\ proc' # "run"]_vars

\* C30: in the Linux variant the messages of the tray-to-window queue are
\* handled in the order they were sent; once the tray has sent "quit" the
\* window process eventually leaves its main loop; and whenever the window
\* process has left its main loop, a tray process that was still alive has
\* been terminated.
C30_QueueOrderAndQuit ==
    /\ [](handled = SubSeq(sent, 1, Len(handled)))
    /\ [](handled \o msgQ = sent)
    /\ (variant = "linux" /\ sent # <<>> /\ sent[Len(sent)] = "quit") ~> (proc = "quit")
    /\ []((variant = "linux" /\ proc = "quit") => tray # "running")

\* the tray has sent "show", then "quit", both waited in the queue together,
\* and the window process has handled them and left
C30_Witness ==
    /\ variant = "linux" /\ proc = "quit" /\ tray = "exited"
    /\ sent = <<"show", "quit">> /\ handled = sent /\ msgQ = <<>>
    /\ window = "shown"


(***************************************************************************)
(* Properties of the handlers when an exception is raised (SpecFault).    *)
(***************************************************************************)
\* C21: an unexpected exception raised inside a UI handler (toggle handler,
\* poll or timer callback, queue check) is caught at the callback's boundary
\* and turned into an alert shown to the user, and the displayed state after
\* the handler equals the displayed state before it.
C21_ExceptionAlertedStateKept ==
    ev.kind = "raised" =>
        /\ ev.alerted
        /\ (IF ev.entry = "tray_timer" THEN IconOn ELSE ShownOn) = ev.shown

====
